---- MODULE Spec2Model ----
(***************************************************************************)
(* Model of the Raspberry Pi MJPEG streamer's capture-to-stream pipeline.  *)
(*                                                                         *)
(*   - the circular buffer of JPEG frame pointers (src/src/cb),            *)
(*   - the producer stage: the loop of producer() in main.c, whose frame   *)
(*     is made and pushed as image_processor() does it (one freshly        *)
(*     allocated jpeg_frame per captured frame),                           *)
(*   - the consumer stage.  The repository holds two renditions of the     *)
(*     consumer body: the loop body of consumer() in main.c and            *)
(*     send_frames() in mjpeg_stream.c.  A run uses one of them for its    *)
(*     whole length; Init draws which (variable "variant").                *)
(*                                                                         *)
(* Frames are numbered 1, 2, ... in capture order; 0 is the NULL pointer.  *)
(***************************************************************************)
EXTENDS Integers, Sequences, FiniteSets, TLC

\* ------------------------------------------------------------------ bounds
MaxFrames == 12        \* frames the producer captures in a checked run
MaxOps == 24           \* queue calls in a checked run of the sequential driver
MaxConns == 2          \* connections accepted in a checked run of the server
MaxCalls == 2          \* calls of send_mjpeg_frame in a checked run of it
MaxCaptures == 3       \* buffers dequeued in a checked run of capture_frames
MaxReturns == 3        \* returns of capture_frames to the producer in a checked run

\* --------------------------------------------------------------- constants
BUFFER_SIZE == 10
NumBuffers == 4        \* cctx->req.count

VARIABLES
    cb,            \* CircularBuffer cb: [entries, head, tail]
    semData,       \* value of the counting semaphore
    mutexBuffer,   \* owner of the mutex: "none", "producer", "consumer"
    ppc,           \* producer's position
    cpc,           \* consumer's position
    jpeg,          \* producer: the frame being produced (0 = none)
    output,        \* consumer: struct jpeg_frame *output / *jpeg
    ret,           \* consumer: result of send_mjpeg_frame
    nframes,       \* frames allocated so far (capture index of the latest)
    mem,           \* per frame: "none", "live", "nodata", "freed"
    rel,           \* per frame: number of times its JPEG data was freed
    sent,          \* frames of which bytes were written to the client, in order
    taken,         \* frames the consumer removed from the queue
    misuse,        \* uses of a released frame that happened
    live,          \* frames stored and not yet read or discarded, oldest first
    variant,       \* "consumer" (main.c) or "send_frames" (mjpeg_stream.c)
    nops,          \* sequential driver: calls made
    batch,         \* sequential driver: frames written since the last read
    got,           \* sequential driver: results of the reads since the last write
    fromEmpty,     \* sequential driver: batch began on an empty queue
    last,          \* sequential driver: record of the last call
    mpc,           \* main: position in the server loop
    th0,           \* main: th[0] (producer): "indeterminate" or "valid"
    th1,           \* main: th[1] (consumer): "indeterminate" or "valid"
    nconn,         \* connections accepted so far
    wire,          \* what was written to the current client socket, in order
    overlap,       \* a thread was created while its predecessor still ran
    client_fd,     \* sctx.client_fd: 0 at start, -1, or the connection's number
    closes,        \* per connection: number of close() calls on its socket
    spc,           \* send_mjpeg_frame: position in the call
    sframe,        \* send_mjpeg_frame: the frame argument
    swrites,       \* send_mjpeg_frame: the write() calls of this call, in order
    sret,          \* send_mjpeg_frame: value returned
    ncalls,        \* send_mjpeg_frame: calls made so far
    kpc,           \* capture_frames: position in the loop
    owner,         \* per device buffer: "device" (queued) or "process"
    bufidx,        \* capture_frames: cctx->buf.index
    cdata,         \* capture_frames: frame->data, "null" or "data"
    reads,         \* reads of device buffer memory: [index, owner at the time]
    ncap,          \* capture_frames: buffers dequeued so far
    dqfail,        \* capture_frames: a VIDIOC_DQBUF has failed
    ipc,           \* camera setup: the step main / initialize_camera is at
    dev_fd,        \* cctx->dev_fd: -1 or an open descriptor
    cam_fd,        \* cctx->cam_fd: -1 or an open descriptor
    bufs,          \* cctx->buffers: [alloc, start], start per buffer
    n_buffers,     \* cctx->n_buffers
    queued,        \* buffers queued to the device during setup
    streaming,     \* the device is streaming
    steps,         \* setup steps attempted, in order, with their outcome
    leds,          \* LED ioctls issued to the control device: [cmd, ok]
    hopen,         \* per device: successful open() calls
    hclose,        \* per device: close() calls
    nmap,          \* per buffer: successful mmap() calls
    nunmap,        \* per buffer: munmap() calls
    iret,          \* value initialize_camera returned (1: not yet)
    req_count,     \* cctx->req.count
    gpc,           \* one YUYV group: "off", "ready" or "done"
    gin,           \* one YUYV group: the four input bytes <<Y0, U, Y1, V>>
    gout,          \* one YUYV group: the two RGB pixels written
    fpc,           \* convert_yuyv_to_rgb: "off", "ready", "called", "crashed"
    ymem,          \* the input frame's memory, as a sequence of YUYV groups
    ydata,         \* yuyv->data, as an offset in groups into ymem
    ywidth,        \* yuyv->width
    yheight,       \* yuyv->height
    rgb,           \* the output buffer: per pixel an RGB triple or Unwritten
    rgb1,          \* the output buffer as the first call left it
    ncv,           \* calls of convert_yuyv_to_rgb made
    lpc,           \* LED driver: the step my_init is at, "loaded", "failed", ...
    kobj,          \* LED driver: kernel objects registered and not undone
    gpio_ready,    \* LED driver: the flag gpio_ready
    gpio,          \* LED driver: per LED [desc, out, val]
    lret,          \* LED driver: value my_init returned (1: not yet)
    lcmds,         \* LED driver: ioctl commands received since loading
    lfail          \* LED driver: the initialisation step that failed

vars == <<cb, semData, mutexBuffer, ppc, cpc, jpeg, output, ret, nframes, mem,
          rel, sent, taken, misuse, live, variant, nops, batch, got,
          fromEmpty, last, mpc, th0, th1, nconn, wire, overlap,
          client_fd, closes, spc, sframe, swrites, sret, ncalls,
          kpc, owner, bufidx, cdata, reads, ncap, dqfail,
          ipc, dev_fd, cam_fd, bufs, n_buffers, queued, streaming, steps,
          leds, hopen, hclose, nmap, nunmap, iret, req_count,
          gpc, gin, gout, fpc, ymem, ydata, ywidth, yheight, rgb, rgb1, ncv,
          lpc, kobj, gpio_ready, gpio, lret, lcmds, lfail>>

pipeVars == <<semData, mutexBuffer, ppc, cpc, jpeg, ret, mem, rel, sent,
              taken, misuse, variant>>
driverVars == <<nops, batch, got, fromEmpty, last>>
serverVars == <<mpc, th0, th1, nconn, wire, overlap, client_fd, closes>>
sendVars == <<spc, sframe, swrites, sret, ncalls>>
captureVars == <<kpc, owner, bufidx, cdata, reads, ncap, dqfail>>
cameraVars == <<ipc, dev_fd, cam_fd, bufs, n_buffers, queued, streaming,
                steps, leds, hopen, hclose, nmap, nunmap, iret, req_count>>
groupVars == <<gpc, gin, gout>>
frameVars == <<fpc, ymem, ydata, ywidth, yheight, rgb, rgb1, ncv>>
convVars == <<groupVars, frameVars>>
ledVars == <<lpc, kobj, gpio_ready, gpio, lret, lcmds, lfail>>
extVars == <<sendVars, captureVars, cameraVars, convVars, ledVars>>
coreVars == <<cb, semData, mutexBuffer, ppc, cpc, jpeg, output, ret, nframes,
              mem, rel, sent, taken, misuse, live, variant, nops, batch, got,
              fromEmpty, last>>

\* A frame argument: NULL, a frame without data, or a frame with data.
NullFrame == [ptr |-> "null", data |-> "null", size |-> 0]

\* No call of send_mjpeg_frame is in progress or was made.
SendIdle ==
    /\ spc = "idle"
    /\ sframe = NullFrame
    /\ swrites = <<>>
    /\ sret = 0
    /\ ncalls = 0

Buffers == 0..(NumBuffers - 1)

\* After camera setup: every buffer is queued to the device, no frame yet.
CaptureReady ==
    /\ owner = [i \in Buffers |-> "device"]
    /\ bufidx = 0
    /\ cdata = "null"
    /\ reads = {}
    /\ ncap = 0
    /\ dqfail = FALSE

\* capture_frames is not running.
CaptureIdle == kpc = "off" /\ CaptureReady

\* No conversion is being run.
GroupIdle == gpc = "off" /\ gin = <<0, 0, 0, 0>> /\ gout = <<>>

FrameIdle ==
    /\ fpc = "off"
    /\ ymem = <<>>
    /\ ydata = 0
    /\ ywidth = 0
    /\ yheight = 0
    /\ rgb = <<>>
    /\ rgb1 = <<>>
    /\ ncv = 0

ConvIdle == GroupIdle /\ FrameIdle

LedNames == {"red", "green"}

\* A GPIO line nobody has a descriptor for, not configured, not driven.
NoLine == [desc |-> "null", out |-> FALSE, val |-> -1]

\* The LED driver module is not loaded.
LedUnloaded ==
    /\ kobj = {}
    /\ gpio_ready = FALSE
    /\ gpio = [l \in LedNames |-> NoLine]
    /\ lret = 1
    /\ lcmds = <<>>
    /\ lfail = "none"

LedIdle == lpc = "off" /\ LedUnloaded

Devices == {"dev", "cam"}

\* cctx->buffers == NULL
NoBuffers == [alloc |-> FALSE, start |-> [i \in Buffers |-> "null"]]

\* memset(cctx, 0, ...); cam_fd = dev_fd = -1: nothing opened, mapped or
\* queued.                                                    (camera.c 66-68)
CameraClosed ==
    /\ dev_fd = -1
    /\ cam_fd = -1
    /\ bufs = NoBuffers
    /\ n_buffers = 0
    /\ queued = {}
    /\ streaming = FALSE
    /\ steps = <<>>
    /\ leds = <<>>
    /\ hopen = [d \in Devices |-> 0]
    /\ hclose = [d \in Devices |-> 0]
    /\ nmap = [i \in Buffers |-> 0]
    /\ nunmap = [i \in Buffers |-> 0]
    /\ iret = 1
    /\ req_count = 0

\* Camera setup is not being run.
CameraIdle == ipc = "off" /\ CameraClosed

Frames == 1..MaxFrames
Slots == 0..(BUFFER_SIZE - 1)
Conns == 1..MaxConns

\* ------------------------------------------------------- circular_buffer.c

\* circular_buffer_init: head = tail = 0; the global's entries are zeroed.
circular_buffer_init ==
    [entries |-> [i \in Slots |-> 0], head |-> 0, tail |-> 0]

cb_write_no_discard(b, frame) ==
    [entries |-> [b.entries EXCEPT ![b.head] = frame],
     head |-> (b.head + 1) % BUFFER_SIZE,
     tail |-> b.tail]

\* cb_write: store at head, advance head, and if head caught up with tail
\* advance tail.  Nothing is released here.
cb_write(b, frame) ==
    LET h == (b.head + 1) % BUFFER_SIZE
    IN  [entries |-> [b.entries EXCEPT ![b.head] = frame],
         head |-> h,
         tail |-> IF h = b.tail THEN (b.tail + 1) % BUFFER_SIZE ELSE b.tail]

cb_read_no_advance(b, out) ==
    IF b.head = b.tail
    THEN [ret |-> FALSE, out |-> out, cb |-> b]
    ELSE [ret |-> TRUE, out |-> b.entries[b.tail], cb |-> b]

cb_read_newest(b, out) ==
    IF b.head = b.tail
    THEN [ret |-> FALSE, out |-> out, cb |-> b]
    ELSE [ret |-> TRUE,
          out |-> b.entries[(b.head + BUFFER_SIZE - 1) % BUFFER_SIZE],
          cb |-> [b EXCEPT !.tail = (b.tail + 1) % BUFFER_SIZE]]

cb_read_clobber(b, out) ==
    IF b.head = b.tail
    THEN [ret |-> FALSE, out |-> 0, cb |-> b]
    ELSE [ret |-> TRUE,
          out |-> b.entries[b.tail],
          cb |-> [b EXCEPT !.tail = (b.tail + 1) % BUFFER_SIZE]]

\* cb_read: false on head == tail, leaving *output alone; otherwise
\* *output = entries[tail] and tail advances.
cb_read(b, out) ==
    IF b.head = b.tail
    THEN [ret |-> FALSE, out |-> out, cb |-> b]
    ELSE [ret |-> TRUE,
          out |-> b.entries[b.tail],
          cb |-> [b EXCEPT !.tail = (b.tail + 1) % BUFFER_SIZE]]

\* ------------------------------------------------- bookkeeping of the model

RECURSIVE Without(_, _)
Without(s, x) ==
    IF s = <<>> THEN <<>>
    ELSE IF Head(s) = x THEN Without(Tail(s), x)
    ELSE <<Head(s)>> \o Without(Tail(s), x)

\* The frame a cb_write discards: the one tail pointed at, when the write
\* moved tail.
Discarded(b, frame) ==
    IF cb_write(b, frame).tail # b.tail THEN b.entries[b.tail] ELSE 0

LiveAfterWrite(b, frame) == Without(Append(live, frame), Discarded(b, frame))

LiveAfterRead(r) == IF r.ret THEN Without(live, r.out) ELSE live

\* ------------------------------------------------------------ frame memory

\* free(frame->data); frame->data = NULL; frame->size = 0   (main.c 170-172)
\* The frame structure stays allocated; its data pointer is NULL afterwards.
FreeDataKeep(m, f) ==
    IF f \in DOMAIN m /\ m[f] = "live" THEN [m EXCEPT ![f] = "nodata"] ELSE m

\* free(jpeg->data); free(jpeg)                      (mjpeg_stream.c 59-60)
FreeAll(m, f) ==
    IF f \in DOMAIN m THEN [m EXCEPT ![f] = "freed"] ELSE m

\* One more release of f's data is counted whenever free() is handed a data
\* pointer that was allocated: a live one, or again one already freed.
CountRelease(r, m, f) ==
    IF f \in DOMAIN m /\ m[f] \in {"live", "freed"}
    THEN [r EXCEPT ![f] = IF r[f] < 2 THEN r[f] + 1 ELSE 2]
    ELSE r

\* ------------------------------------------------------- send_mjpeg_frame

\* The results send_mjpeg_frame can give for a frame.  NULL frame, NULL data
\* or zero size: -1 and nothing is written.  Otherwise 0, or -2/-3/-4 when
\* the header, payload or trailer write is short.  A frame structure that
\* was freed, or an indeterminate pointer, is read: any result is possible.
send_mjpeg_frame(frame) ==
    IF frame = 0 THEN {-1}
    ELSE IF frame \notin DOMAIN mem THEN {0, -1, -2, -3, -4}
    ELSE IF mem[frame] = "nodata" THEN {-1}
    ELSE IF mem[frame] = "live" THEN {0, -2, -3, -4}
    ELSE {0, -1, -2, -3, -4}

\* A result other than -1 means write() was called on the client socket
\* with this frame's header or bytes.
Wrote(r) == r # -1

\* ---------------------------------------------------------------- producer
\* main.c producer() 137-149; the body that makes the frame and pushes it is
\* image_processor() 38-73.

\* image_processor 43-57: a fresh jpeg_frame is allocated and filled.
producer_capture ==
    /\ ppc = "capture"
    /\ nframes < MaxFrames
    /\ nframes' = nframes + 1
    /\ jpeg' = nframes + 1
    /\ mem' = [mem EXCEPT ![nframes + 1] = "live"]
    /\ ppc' = "lock"
    /\ UNCHANGED <<cb, semData, mutexBuffer, cpc, output, ret, rel, sent,
                   taken, misuse, live, variant>>
    /\ UNCHANGED driverVars
    /\ UNCHANGED serverVars
    /\ UNCHANGED extVars

producer_lock_unguarded ==
    /\ ppc = "lock"
    /\ mutexBuffer' = "producer"
    /\ ppc' = "write"
    /\ UNCHANGED <<cb, semData, cpc, jpeg, output, ret, nframes, mem, rel,
                   sent, taken, misuse, live, variant>>
    /\ UNCHANGED driverVars
    /\ UNCHANGED serverVars
    /\ UNCHANGED extVars

\* pthread_mutex_lock(&mutexBuffer)
producer_lock ==
    /\ ppc = "lock"
    /\ mutexBuffer = "none"
    /\ mutexBuffer' = "producer"
    /\ ppc' = "write"
    /\ UNCHANGED <<cb, semData, cpc, jpeg, output, ret, nframes, mem, rel,
                   sent, taken, misuse, live, variant>>
    /\ UNCHANGED driverVars
    /\ UNCHANGED serverVars
    /\ UNCHANGED extVars

\* cb_write(&cb, frame)
producer_write ==
    /\ ppc = "write"
    /\ cb' = cb_write(cb, jpeg)
    /\ live' = LiveAfterWrite(cb, jpeg)
    /\ ppc' = "unlock"
    /\ UNCHANGED <<semData, mutexBuffer, cpc, jpeg, output, ret, nframes, mem,
                   rel, sent, taken, misuse, variant>>
    /\ UNCHANGED driverVars
    /\ UNCHANGED serverVars
    /\ UNCHANGED extVars

\* pthread_mutex_unlock(&mutexBuffer)
producer_unlock ==
    /\ ppc = "unlock"
    /\ mutexBuffer' = "none"
    /\ ppc' = "post"
    /\ UNCHANGED <<cb, semData, cpc, jpeg, output, ret, nframes, mem, rel,
                   sent, taken, misuse, live, variant>>
    /\ UNCHANGED driverVars
    /\ UNCHANGED serverVars
    /\ UNCHANGED extVars

\* sem_post(&semData)
producer_post ==
    /\ ppc = "post"
    /\ semData' = semData + 1
    /\ jpeg' = 0
    /\ ppc' = "capture"
    /\ UNCHANGED <<cb, mutexBuffer, cpc, output, ret, nframes, mem, rel, sent,
                   taken, misuse, live, variant>>
    /\ UNCHANGED driverVars
    /\ UNCHANGED serverVars
    /\ UNCHANGED extVars

\* ---------------------------------------------------------------- consumer

Released(f) == f \notin DOMAIN mem \/ mem[f] # "live"

\* What a write puts on the connection: the session header (whole, or a
\* short or failed write of it) or the multipart part of a frame.
Header == [kind |-> "header", frame |-> 0]
HeaderShort == [kind |-> "header_short", frame |-> 0]
Part(f) == [kind |-> "part", frame |-> f]

\* What the consumer's local pointer holds before it is first assigned:
\* main.c 152 declares it without a value (-1: indeterminate), send_frames
\* sets it to NULL.
Indeterminate == -1

\* sem_wait(&semData): blocks while the value is zero.        (main.c 155)
consumer_wait ==
    /\ cpc = "wait"
    /\ semData > 0
    /\ semData' = semData - 1
    /\ cpc' = "lock"
    /\ UNCHANGED <<cb, mutexBuffer, ppc, jpeg, output, ret, nframes, mem, rel,
                   sent, taken, misuse, live, variant>>
    /\ UNCHANGED driverVars
    /\ UNCHANGED serverVars
    /\ UNCHANGED extVars

\* pthread_mutex_lock(&mutexBuffer)                            (main.c 157)
consumer_lock ==
    /\ cpc = "lock"
    /\ variant = "consumer"
    /\ mutexBuffer = "none"
    /\ mutexBuffer' = "consumer"
    /\ cpc' = "read"
    /\ UNCHANGED <<cb, semData, ppc, jpeg, output, ret, nframes, mem, rel,
                   sent, taken, misuse, live, variant>>
    /\ UNCHANGED driverVars
    /\ UNCHANGED serverVars
    /\ UNCHANGED extVars

\* cb_read(&cb, &output); the result is not looked at.         (main.c 158)
consumer_read ==
    /\ cpc = "read"
    /\ variant = "consumer"
    /\ LET r == cb_read(cb, output)
       IN  /\ cb' = r.cb
           /\ output' = r.out
           /\ live' = LiveAfterRead(r)
           /\ taken' = IF r.ret THEN taken \cup {r.out} ELSE taken
           /\ misuse' = IF r.ret /\ Released(r.out)
                        THEN misuse \cup {"read_released"} ELSE misuse
    /\ cpc' = "unlock"
    /\ UNCHANGED <<semData, mutexBuffer, ppc, jpeg, ret, nframes, mem, rel,
                   sent, variant>>
    /\ UNCHANGED driverVars
    /\ UNCHANGED serverVars
    /\ UNCHANGED extVars

\* The consumer goes on to the socket write with the mutex still locked.
consumer_unlock_kept ==
    /\ cpc = "unlock"
    /\ variant = "consumer"
    /\ mutexBuffer' = mutexBuffer
    /\ cpc' = "send"
    /\ UNCHANGED <<cb, semData, ppc, jpeg, output, ret, nframes, mem, rel,
                   sent, taken, misuse, live, variant>>
    /\ UNCHANGED driverVars
    /\ UNCHANGED serverVars
    /\ UNCHANGED extVars

\* pthread_mutex_unlock(&mutexBuffer)                          (main.c 159)
consumer_unlock ==
    /\ cpc = "unlock"
    /\ variant = "consumer"
    /\ mutexBuffer' = "none"
    /\ cpc' = "send"
    /\ UNCHANGED <<cb, semData, ppc, jpeg, output, ret, nframes, mem, rel,
                   sent, taken, misuse, live, variant>>
    /\ UNCHANGED driverVars
    /\ UNCHANGED serverVars
    /\ UNCHANGED extVars

\* int ret = send_mjpeg_frame(output, sctx)                    (main.c 162)
consumer_send ==
    /\ cpc = "send"
    /\ variant = "consumer"
    /\ \E r \in send_mjpeg_frame(output) :
          /\ ret' = r
          /\ sent' = IF Wrote(r) THEN Append(sent, output) ELSE sent
          /\ misuse' = IF Wrote(r) /\ Released(output)
                       THEN misuse \cup {"sent_released"} ELSE misuse
          /\ wire' = IF Wrote(r) THEN Append(wire, Part(output)) ELSE wire
    /\ cpc' = "free"
    /\ UNCHANGED <<cb, semData, mutexBuffer, ppc, jpeg, output, nframes, mem,
                   rel, taken, live, variant>>
    /\ UNCHANGED driverVars
    /\ UNCHANGED <<mpc, th0, th1, nconn, overlap, client_fd, closes>>
    /\ UNCHANGED extVars

consumer_free_continue ==
    /\ cpc = "free"
    /\ variant = "consumer"
    /\ IF ret < 0
       THEN /\ cpc' = "wait"
            /\ UNCHANGED <<mem, rel>>
       ELSE /\ rel' = CountRelease(rel, mem, output)
            /\ mem' = FreeDataKeep(mem, output)
            /\ cpc' = "wait"
    /\ UNCHANGED <<cb, semData, mutexBuffer, ppc, jpeg, output, ret, nframes,
                   sent, taken, misuse, live, variant>>
    /\ UNCHANGED driverVars
    /\ UNCHANGED serverVars
    /\ UNCHANGED extVars

\* if (ret < 0) break; free(frame->data); frame->data = NULL  (main.c 163-172)
\* The frame freed is the one just sent.
consumer_free ==
    /\ cpc = "free"
    /\ variant = "consumer"
    /\ IF ret < 0
       THEN /\ cpc' = "done"
            /\ UNCHANGED <<mem, rel>>
       ELSE /\ rel' = CountRelease(rel, mem, output)
            /\ mem' = FreeDataKeep(mem, output)
            /\ cpc' = "wait"
    /\ UNCHANGED <<cb, semData, mutexBuffer, ppc, jpeg, output, ret, nframes,
                   sent, taken, misuse, live, variant>>
    /\ UNCHANGED driverVars
    /\ UNCHANGED serverVars
    /\ UNCHANGED extVars

\* ------------------------------------------------------------- send_frames
\* mjpeg_stream.c 42-69, called by the consumer thread after each wait; the
\* consumer's loop ends when it returns a negative value.

\* jpeg = NULL; pthread_mutex_lock(pipe->mutex)       (mjpeg_stream.c 46-49)
send_frames_lock ==
    /\ cpc = "lock"
    /\ variant = "send_frames"
    /\ mutexBuffer = "none"
    /\ mutexBuffer' = "consumer"
    /\ output' = 0
    /\ cpc' = "read"
    /\ UNCHANGED <<cb, semData, ppc, jpeg, ret, nframes, mem, rel, sent,
                   taken, misuse, live, variant>>
    /\ UNCHANGED driverVars
    /\ UNCHANGED serverVars
    /\ UNCHANGED extVars

\* cb_read(pipe->cb, &jpeg)                              (mjpeg_stream.c 50)
send_frames_read ==
    /\ cpc = "read"
    /\ variant = "send_frames"
    /\ LET r == cb_read(cb, output)
       IN  /\ cb' = r.cb
           /\ output' = r.out
           /\ live' = LiveAfterRead(r)
           /\ taken' = IF r.ret THEN taken \cup {r.out} ELSE taken
           /\ misuse' = IF r.ret /\ Released(r.out)
                        THEN misuse \cup {"read_released"} ELSE misuse
    /\ cpc' = "unlock"
    /\ UNCHANGED <<semData, mutexBuffer, ppc, jpeg, ret, nframes, mem, rel,
                   sent, variant>>
    /\ UNCHANGED driverVars
    /\ UNCHANGED serverVars
    /\ UNCHANGED extVars

\* pthread_mutex_unlock(pipe->mutex); if (!jpeg) return 0  (mjpeg_stream.c 51-53)
send_frames_unlock ==
    /\ cpc = "unlock"
    /\ variant = "send_frames"
    /\ mutexBuffer' = "none"
    /\ cpc' = IF output = 0 THEN "wait" ELSE "send"
    /\ UNCHANGED <<cb, semData, ppc, jpeg, output, ret, nframes, mem, rel,
                   sent, taken, misuse, live, variant>>
    /\ UNCHANGED driverVars
    /\ UNCHANGED serverVars
    /\ UNCHANGED extVars

\* int ret = send_mjpeg_frame(jpeg, sctx)                (mjpeg_stream.c 56)
send_frames_send ==
    /\ cpc = "send"
    /\ variant = "send_frames"
    /\ \E r \in send_mjpeg_frame(output) :
          /\ ret' = r
          /\ sent' = IF Wrote(r) THEN Append(sent, output) ELSE sent
          /\ misuse' = IF Wrote(r) /\ Released(output)
                       THEN misuse \cup {"sent_released"} ELSE misuse
          /\ wire' = IF Wrote(r) THEN Append(wire, Part(output)) ELSE wire
    /\ cpc' = "free"
    /\ UNCHANGED <<cb, semData, mutexBuffer, ppc, jpeg, output, nframes, mem,
                   rel, taken, live, variant>>
    /\ UNCHANGED driverVars
    /\ UNCHANGED <<mpc, th0, th1, nconn, overlap, client_fd, closes>>
    /\ UNCHANGED extVars

\* free(jpeg->data); free(jpeg) on both paths; -1 after a failed send, else 0
\*                                                    (mjpeg_stream.c 57-68)
send_frames_free ==
    /\ cpc = "free"
    /\ variant = "send_frames"
    /\ rel' = CountRelease(rel, mem, output)
    /\ mem' = FreeAll(mem, output)
    /\ cpc' = IF ret < 0 THEN "done" ELSE "wait"
    /\ UNCHANGED <<cb, semData, mutexBuffer, ppc, jpeg, output, ret, nframes,
                   sent, taken, misuse, live, variant>>
    /\ UNCHANGED driverVars
    /\ UNCHANGED serverVars
    /\ UNCHANGED extVars

\* ------------------------------------------------------------ the pipeline

\* The server loop at rest: no connection accepted, no thread created.
ServerIdle ==
    /\ mpc = "off"
    /\ th0 = "indeterminate"
    /\ th1 = "indeterminate"
    /\ nconn = 0
    /\ wire = <<>>
    /\ overlap = FALSE
    /\ client_fd = 0
    /\ closes = [c \in Conns |-> 0]

\* main.c 115-120 with both threads running: a connection was accepted, the
\* session header sent, both threads created, and main waits in
\* pthread_join.
ServerJoining ==
    /\ mpc = "join0"
    /\ th0 = "valid"
    /\ th1 = "valid"
    /\ nconn = 1
    /\ wire = <<Header>>
    /\ overlap = FALSE
    /\ client_fd = 1
    /\ closes = [c \in Conns |-> 0]

\* The parts of the program a specification does not run.
ExtIdle == SendIdle /\ CaptureIdle /\ CameraIdle /\ ConvIdle /\ LedIdle

\* main.c 58-68: circular_buffer_init, mutex initialised, sem_init(.., 0);
\* then the state in which both threads have just been started.
Init ==
    /\ cb = circular_buffer_init
    /\ semData = 0
    /\ mutexBuffer = "none"
    /\ ppc = "capture"
    /\ cpc = "wait"
    /\ jpeg = 0
    /\ variant \in {"consumer", "send_frames"}
    /\ output = IF variant = "consumer" THEN Indeterminate ELSE 0
    /\ ret = 0
    /\ nframes = 0
    /\ mem = [f \in Frames |-> "none"]
    /\ rel = [f \in Frames |-> 0]
    /\ sent = <<>>
    /\ taken = {}
    /\ misuse = {}
    /\ live = <<>>
    /\ nops = 0
    /\ batch = <<>>
    /\ got = <<>>
    /\ fromEmpty = TRUE
    /\ last = [op |-> "init", ret |-> FALSE, pre |-> circular_buffer_init,
               preOut |-> 0, oldest |-> 0]
    /\ ServerJoining
    /\ ExtIdle

Next ==
    \/ producer_capture
    \/ producer_lock
    \/ producer_write
    \/ producer_unlock
    \/ producer_post
    \/ consumer_wait
    \/ consumer_lock
    \/ consumer_read
    \/ consumer_unlock
    \/ consumer_send
    \/ consumer_free
    \/ send_frames_lock
    \/ send_frames_read
    \/ send_frames_unlock
    \/ send_frames_send
    \/ send_frames_free

Spec == Init /\ [][Next]_vars

\* ---------------------------------------------------------- the server loop
\* main.c 85-126.  Thread creation that fails leaves th[i] as it was; a
\* pthread_join on a th[i] that names no running thread is undefined: it
\* may return at once (the case taken here) or not at all.

CloseSocket(c, fd) ==
    IF fd \in DOMAIN c THEN [c EXCEPT ![fd] = c[fd] + 1] ELSE c

\* accept_client_connection (http_server.c 95-116); on failure client_fd is
\* -1 and the loop continues.                                 (main.c 90-93)
main_accept ==
    /\ mpc = "accept"
    /\ nconn < MaxConns
    /\ \/ /\ client_fd' = -1
          /\ UNCHANGED <<mpc, nconn, wire>>
       \/ /\ nconn' = nconn + 1
          /\ client_fd' = nconn + 1
          /\ wire' = <<>>
          /\ mpc' = "header"
    /\ UNCHANGED <<th0, th1, overlap, closes>>
    /\ UNCHANGED <<cb, semData, mutexBuffer, ppc, cpc, jpeg, output, ret,
                   nframes, mem, rel, sent, taken, misuse, live, variant>>
    /\ UNCHANGED driverVars
    /\ UNCHANGED extVars

\* The result of send_mjpeg_http_header is not looked at.
main_header_unchecked ==
    /\ mpc = "header"
    /\ \/ wire' = Append(wire, Header)
       \/ wire' = Append(wire, HeaderShort)
    /\ mpc' = "create0"
    /\ UNCHANGED <<th0, th1, nconn, overlap, client_fd, closes>>
    /\ UNCHANGED <<cb, semData, mutexBuffer, ppc, cpc, jpeg, output, ret,
                   nframes, mem, rel, sent, taken, misuse, live, variant>>
    /\ UNCHANGED driverVars
    /\ UNCHANGED extVars

main_header_skipped ==
    /\ mpc = "header"
    /\ mpc' = "create0"
    /\ UNCHANGED <<th0, th1, nconn, wire, overlap, client_fd, closes>>
    /\ UNCHANGED <<cb, semData, mutexBuffer, ppc, cpc, jpeg, output, ret,
                   nframes, mem, rel, sent, taken, misuse, live, variant>>
    /\ UNCHANGED driverVars
    /\ UNCHANGED extVars

\* send_mjpeg_http_header: one write() of the whole header; a short or
\* failed write closes the client socket and the loop continues.
\*                                 (main.c 96-100, http_server.c 128-145)
main_header ==
    /\ mpc = "header"
    /\ \/ /\ wire' = Append(wire, Header)
          /\ mpc' = "create0"
          /\ UNCHANGED closes
       \/ /\ wire' = Append(wire, HeaderShort)
          /\ closes' = CloseSocket(closes, client_fd)
          /\ mpc' = "accept"
    /\ UNCHANGED <<th0, th1, nconn, overlap, client_fd>>
    /\ UNCHANGED <<cb, semData, mutexBuffer, ppc, cpc, jpeg, output, ret,
                   nframes, mem, rel, sent, taken, misuse, live, variant>>
    /\ UNCHANGED driverVars
    /\ UNCHANGED extVars

\* i = 0: pthread_create(&th[0], NULL, &producer, NULL)     (main.c 104-107)
main_create_producer ==
    /\ mpc = "create0"
    /\ \/ /\ th0' = "valid"
          /\ ppc' = "capture"
          /\ jpeg' = 0
          /\ overlap' = (overlap \/ ppc \notin {"off", "done"})
       \/ UNCHANGED <<th0, ppc, jpeg, overlap>>
    /\ mpc' = "create1"
    /\ UNCHANGED <<th1, nconn, wire, client_fd, closes>>
    /\ UNCHANGED <<cb, semData, mutexBuffer, cpc, output, ret, nframes, mem,
                   rel, sent, taken, misuse, live, variant>>
    /\ UNCHANGED driverVars
    /\ UNCHANGED extVars

\* i = 1: pthread_create(&th[1], NULL, &consumer, NULL)     (main.c 108-112)
main_create_consumer ==
    /\ mpc = "create1"
    /\ \/ /\ th1' = "valid"
          /\ cpc' = "wait"
          /\ output' = IF variant = "consumer" THEN Indeterminate ELSE 0
          /\ ret' = 0
          /\ overlap' = (overlap \/ cpc \notin {"off", "done"})
       \/ UNCHANGED <<th1, cpc, output, ret, overlap>>
    /\ mpc' = "join0"
    /\ UNCHANGED <<th0, nconn, wire, client_fd, closes>>
    /\ UNCHANGED <<cb, semData, mutexBuffer, ppc, jpeg, nframes, mem, rel,
                   sent, taken, misuse, live, variant>>
    /\ UNCHANGED driverVars
    /\ UNCHANGED extVars

\* i = 0: pthread_join(th[0], NULL) returns when the producer has ended.
\*                                                          (main.c 116-120)
main_join_producer ==
    /\ mpc = "join0"
    /\ th0 = "valid" => ppc = "done"
    /\ th0' = "indeterminate"
    /\ mpc' = "join1"
    /\ UNCHANGED <<th1, nconn, wire, overlap, client_fd, closes>>
    /\ UNCHANGED <<cb, semData, mutexBuffer, ppc, cpc, jpeg, output, ret,
                   nframes, mem, rel, sent, taken, misuse, live, variant>>
    /\ UNCHANGED driverVars
    /\ UNCHANGED extVars

\* i = 1: pthread_join(th[1], NULL) returns when the consumer has ended.
main_join_consumer ==
    /\ mpc = "join1"
    /\ th1 = "valid" => cpc = "done"
    /\ th1' = "indeterminate"
    /\ mpc' = "close"
    /\ UNCHANGED <<th0, nconn, wire, overlap, client_fd, closes>>
    /\ UNCHANGED <<cb, semData, mutexBuffer, ppc, cpc, jpeg, output, ret,
                   nframes, mem, rel, sent, taken, misuse, live, variant>>
    /\ UNCHANGED driverVars
    /\ UNCHANGED extVars

\* close(sctx.client_fd); sctx.client_fd = -1               (main.c 122-125)
main_close ==
    /\ mpc = "close"
    /\ closes' = CloseSocket(closes, client_fd)
    /\ client_fd' = -1
    /\ mpc' = "accept"
    /\ UNCHANGED <<th0, th1, nconn, wire, overlap>>
    /\ UNCHANGED <<cb, semData, mutexBuffer, ppc, cpc, jpeg, output, ret,
                   nframes, mem, rel, sent, taken, misuse, live, variant>>
    /\ UNCHANGED driverVars
    /\ UNCHANGED extVars

\* main.c 58-83: the state in which main enters its loop: nothing accepted
\* yet, no thread created.
InitServer ==
    /\ cb = circular_buffer_init
    /\ semData = 0
    /\ mutexBuffer = "none"
    /\ ppc = "off"
    /\ cpc = "off"
    /\ jpeg = 0
    /\ variant \in {"consumer", "send_frames"}
    /\ output = 0
    /\ ret = 0
    /\ nframes = 0
    /\ mem = [f \in Frames |-> "none"]
    /\ rel = [f \in Frames |-> 0]
    /\ sent = <<>>
    /\ taken = {}
    /\ misuse = {}
    /\ live = <<>>
    /\ nops = 0
    /\ batch = <<>>
    /\ got = <<>>
    /\ fromEmpty = TRUE
    /\ last = [op |-> "init", ret |-> FALSE, pre |-> circular_buffer_init,
               preOut |-> 0, oldest |-> 0]
    /\ mpc = "accept"
    /\ th0 = "indeterminate"
    /\ th1 = "indeterminate"
    /\ nconn = 0
    /\ wire = <<>>
    /\ overlap = FALSE
    /\ client_fd = 0
    /\ closes = [c \in Conns |-> 0]
    /\ ExtIdle

NextServer ==
    \/ main_accept
    \/ main_header
    \/ main_create_producer
    \/ main_create_consumer
    \/ main_join_producer
    \/ main_join_consumer
    \/ main_close
    \/ Next

SpecServer == InitServer /\ [][NextServer]_vars

\* ------------------------------------------------- sequential queue driver
\* Any sequence of cb_write and cb_read calls made by one caller on the
\* queue that circular_buffer_init leaves, on frames 1, 2, ... in order.

\* The stored entries from tail up to head, oldest first.
Contents(b) ==
    [i \in 1..((b.head - b.tail + BUFFER_SIZE) % BUFFER_SIZE) |->
        b.entries[(b.tail + i - 1) % BUFFER_SIZE]]

InitQ ==
    /\ cb = circular_buffer_init
    /\ semData = 0
    /\ mutexBuffer = "none"
    /\ ppc = "off"
    /\ cpc = "off"
    /\ jpeg = 0
    /\ variant = "none"
    /\ output = 0
    /\ ret = 0
    /\ nframes = 0
    /\ mem = [f \in Frames |-> "none"]
    /\ rel = [f \in Frames |-> 0]
    /\ sent = <<>>
    /\ taken = {}
    /\ misuse = {}
    /\ live = <<>>
    /\ nops = 0
    /\ batch = <<>>
    /\ got = <<>>
    /\ fromEmpty = TRUE
    /\ last = [op |-> "init", ret |-> FALSE, pre |-> circular_buffer_init,
               preOut |-> 0, oldest |-> 0]
    /\ ServerIdle
    /\ ExtIdle

call_cb_write ==
    /\ nops < MaxOps
    /\ nops' = nops + 1
    /\ nframes' = nframes + 1
    /\ cb' = cb_write(cb, nframes + 1)
    /\ live' = LiveAfterWrite(cb, nframes + 1)
    /\ batch' = IF got = <<>> THEN Append(batch, nframes + 1)
                ELSE <<nframes + 1>>
    /\ fromEmpty' = IF got = <<>> /\ batch # <<>> THEN fromEmpty
                    ELSE live = <<>>
    /\ got' = <<>>
    /\ last' = [op |-> "write", ret |-> TRUE, pre |-> cb, preOut |-> output,
                oldest |-> IF live = <<>> THEN 0 ELSE Head(live)]
    /\ UNCHANGED output
    /\ UNCHANGED pipeVars
    /\ UNCHANGED serverVars
    /\ UNCHANGED extVars

call_cb_read ==
    /\ nops < MaxOps
    /\ nops' = nops + 1
    /\ LET r == cb_read(cb, output)
       IN  /\ cb' = r.cb
           /\ output' = r.out
           /\ live' = LiveAfterRead(r)
           /\ got' = Append(got, IF r.ret THEN r.out ELSE 0)
           /\ last' = [op |-> "read", ret |-> r.ret, pre |-> cb,
                       preOut |-> output,
                       oldest |-> IF live = <<>> THEN 0 ELSE Head(live)]
    /\ UNCHANGED <<nframes, batch, fromEmpty>>
    /\ UNCHANGED pipeVars
    /\ UNCHANGED serverVars
    /\ UNCHANGED extVars

NextQ ==
    \/ call_cb_write
    \/ call_cb_read

SpecQ == InitQ /\ [][NextQ]_vars

\* ------------------------------------------- send_mjpeg_frame, step by step
\* mjpeg_stream.c 91-125.  Text is a sequence of tokens: the fixed pieces of
\* the format string and one token per digit; the JPEG bytes are opaque.

PayloadSizes == {1, 9, 10, 99, 100, 255, 4096, 12345, 65535}

SendInputs ==
    {NullFrame}
    \cup {[ptr |-> "frame", data |-> "null", size |-> n] : n \in {0, 100}}
    \cup {[ptr |-> "frame", data |-> "data", size |-> n] :
             n \in PayloadSizes \cup {0}}

DigitChars == <<"0", "1", "2", "3", "4", "5", "6", "7", "8", "9">>

RECURSIVE DecimalOctal(_)
DecimalOctal(n) ==
    IF n < 8 THEN <<DigitChars[n + 1]>>
    ELSE Append(DecimalOctal(n \div 8), DigitChars[(n % 8) + 1])

\* %lu of snprintf: the decimal digits of an unsigned long, most significant
\* first, no padding.
RECURSIVE Decimal(_)
Decimal(n) ==
    IF n < 10 THEN <<DigitChars[n + 1]>>
    ELSE Append(Decimal(n \div 10), DigitChars[(n % 10) + 1])

\* The header as snprintf formats it.                 (mjpeg_stream.c 99-106)
FormatHeader(size) ==
    <<"--frame\r\n", "Content-Type: image/jpeg\r\n", "Content-Length: ">>
    \o Decimal(size) \o <<"\r\n", "\r\n">>

\* strlen of a token, and of a text.
TokLen(t) ==
    CASE t = "--frame\r\n" -> 9
      [] t = "Content-Type: image/jpeg\r\n" -> 26
      [] t = "Content-Length: " -> 16
      [] t = "\r\n" -> 2
      [] OTHER -> 1

RECURSIVE StrLen(_)
StrLen(text) ==
    IF text = <<>> THEN 0 ELSE TokLen(Head(text)) + StrLen(Tail(text))

\* What write(fd, buf, len) can return: -1, or a count from 0 to len.
WriteResults(len) == {-1, 0, len - 1, len}

\* One write() call as the connection saw it.
WriteCall(part, text, asked, done) ==
    [part |-> part, text |-> text, asked |-> asked, done |-> done]

\* The caller passes a frame.
send_call ==
    /\ spc \in {"idle", "returned"}
    /\ ncalls < MaxCalls
    /\ ncalls' = ncalls + 1
    /\ sframe' \in SendInputs
    /\ swrites' = <<>>
    /\ sret' = 0
    /\ spc' = "check"
    /\ UNCHANGED coreVars
    /\ UNCHANGED serverVars
    /\ UNCHANGED captureVars
    /\ UNCHANGED cameraVars
    /\ UNCHANGED convVars
    /\ UNCHANGED ledVars

\* if (!frame || !frame->data || frame->size == 0) return -1
\*                                                     (mjpeg_stream.c 93-96)
send_check ==
    /\ spc = "check"
    /\ IF sframe.ptr = "null" \/ sframe.data = "null" \/ sframe.size = 0
       THEN sret' = -1 /\ spc' = "returned"
       ELSE sret' = sret /\ spc' = "header"
    /\ UNCHANGED <<sframe, swrites, ncalls>>
    /\ UNCHANGED coreVars
    /\ UNCHANGED serverVars
    /\ UNCHANGED captureVars
    /\ UNCHANGED cameraVars
    /\ UNCHANGED convVars
    /\ UNCHANGED ledVars

send_header_unchecked ==
    /\ spc = "header"
    /\ LET text == FormatHeader(sframe.size)
           header_len == StrLen(text)
       IN  \E w \in WriteResults(header_len) :
              swrites' = Append(swrites,
                                WriteCall("header", text, header_len, w))
    /\ spc' = "payload"
    /\ UNCHANGED <<sframe, sret, ncalls>>
    /\ UNCHANGED coreVars
    /\ UNCHANGED serverVars
    /\ UNCHANGED captureVars
    /\ UNCHANGED cameraVars
    /\ UNCHANGED convVars
    /\ UNCHANGED ledVars

\* snprintf, then write(fd, header, header_len) != header_len -> -2
\*                                                    (mjpeg_stream.c 99-111)
send_header ==
    /\ spc = "header"
    /\ LET text == FormatHeader(sframe.size)
           header_len == StrLen(text)
       IN  \E w \in WriteResults(header_len) :
              /\ swrites' = Append(swrites,
                                   WriteCall("header", text, header_len, w))
              /\ IF w # header_len
                 THEN sret' = -2 /\ spc' = "returned"
                 ELSE sret' = sret /\ spc' = "payload"
    /\ UNCHANGED <<sframe, ncalls>>
    /\ UNCHANGED coreVars
    /\ UNCHANGED serverVars
    /\ UNCHANGED captureVars
    /\ UNCHANGED cameraVars
    /\ UNCHANGED convVars
    /\ UNCHANGED ledVars

\* write(fd, frame->data, frame->size) != frame->size -> -3
\*                                                   (mjpeg_stream.c 114-116)
send_payload ==
    /\ spc = "payload"
    /\ \E w \in WriteResults(sframe.size) :
          /\ swrites' = Append(swrites,
                               WriteCall("payload", <<>>, sframe.size, w))
          /\ IF w # sframe.size
             THEN sret' = -3 /\ spc' = "returned"
             ELSE sret' = sret /\ spc' = "trailer"
    /\ UNCHANGED <<sframe, ncalls>>
    /\ UNCHANGED coreVars
    /\ UNCHANGED serverVars
    /\ UNCHANGED captureVars
    /\ UNCHANGED cameraVars
    /\ UNCHANGED convVars
    /\ UNCHANGED ledVars

\* write(fd, "\r\n", 2) != 2 -> -4; return 0          (mjpeg_stream.c 119-124)
send_trailer ==
    /\ spc = "trailer"
    /\ \E w \in WriteResults(2) :
          /\ swrites' = Append(swrites, WriteCall("trailer", <<"\r\n">>, 2, w))
          /\ sret' = IF w # 2 THEN -4 ELSE 0
    /\ spc' = "returned"
    /\ UNCHANGED <<sframe, ncalls>>
    /\ UNCHANGED coreVars
    /\ UNCHANGED serverVars
    /\ UNCHANGED captureVars
    /\ UNCHANGED cameraVars
    /\ UNCHANGED convVars
    /\ UNCHANGED ledVars

\* The pipeline at rest: empty queue, no thread, nothing captured.
CoreIdle ==
    /\ cb = circular_buffer_init
    /\ semData = 0
    /\ mutexBuffer = "none"
    /\ ppc = "off"
    /\ cpc = "off"
    /\ jpeg = 0
    /\ variant = "none"
    /\ output = 0
    /\ ret = 0
    /\ nframes = 0
    /\ mem = [f \in Frames |-> "none"]
    /\ rel = [f \in Frames |-> 0]
    /\ sent = <<>>
    /\ taken = {}
    /\ misuse = {}
    /\ live = <<>>
    /\ nops = 0
    /\ batch = <<>>
    /\ got = <<>>
    /\ fromEmpty = TRUE
    /\ last = [op |-> "init", ret |-> FALSE, pre |-> circular_buffer_init,
               preOut |-> 0, oldest |-> 0]

InitSend ==
    /\ CoreIdle /\ ServerIdle /\ SendIdle /\ CaptureIdle /\ CameraIdle
    /\ ConvIdle /\ LedIdle

NextSend ==
    \/ send_call
    \/ send_check
    \/ send_header
    \/ send_payload
    \/ send_trailer

SpecSend == InitSend /\ [][NextSend]_vars

\* ------------------------------------------------- capture_frames (camera.c)
\* camera.c 370-414: dequeue a filled buffer, convert it, send the frame,
\* free it, queue the buffer again; any failing step but the conversion
\* leaves the loop.

\* VIDIOC_DQBUF failing does not stop the loop.
cap_dqbuf_unchecked ==
    /\ kpc = "dqbuf"
    /\ ncap < MaxCaptures
    /\ ncap' = ncap + 1
    /\ \/ /\ bufidx' = 0
          /\ dqfail' = TRUE
          /\ UNCHANGED owner
       \/ \E i \in Buffers :
             /\ owner[i] = "device"
             /\ owner' = [owner EXCEPT ![i] = "process"]
             /\ bufidx' = i
             /\ dqfail' = dqfail
    /\ kpc' = "convert"
    /\ UNCHANGED <<cdata, reads>>
    /\ UNCHANGED coreVars
    /\ UNCHANGED serverVars
    /\ UNCHANGED sendVars
    /\ UNCHANGED cameraVars
    /\ UNCHANGED convVars
    /\ UNCHANGED ledVars

\* memset(&cctx->buf, 0, ...); ioctl(VIDIOC_DQBUF): the device hands over one
\* of the buffers it holds, or the call fails and the loop ends.
\*                                                         (camera.c 373-382)
cap_dqbuf ==
    /\ kpc = "dqbuf"
    /\ ncap < MaxCaptures
    /\ \/ /\ bufidx' = 0
          /\ dqfail' = TRUE
          /\ kpc' = "stopped"
          /\ UNCHANGED <<owner, ncap>>
       \/ \E i \in Buffers :
             /\ owner[i] = "device"
             /\ owner' = [owner EXCEPT ![i] = "process"]
             /\ bufidx' = i
             /\ ncap' = ncap + 1
             /\ dqfail' = dqfail
             /\ kpc' = "convert"
    /\ UNCHANGED <<cdata, reads>>
    /\ UNCHANGED coreVars
    /\ UNCHANGED serverVars
    /\ UNCHANGED sendVars
    /\ UNCHANGED cameraVars
    /\ UNCHANGED convVars
    /\ UNCHANGED ledVars

\* convert_yuyv_to_jpeg(cctx->buffers[cctx->buf.index].start, ...): reads the
\* buffer's memory and allocates the JPEG.  It has no failing return (always
\* 0): the encoder installs jpeg_std_error and nothing else, so an error
\* inside libjpeg ends in the library's error_exit, which ends the process,
\* before or after the buffer was read.
\*                                       (camera.c 384-392, jpeg_encoder.c 52-142)
cap_convert ==
    /\ kpc = "convert"
    /\ \/ /\ reads' = reads \cup {[index |-> bufidx, owner |-> owner[bufidx]]}
          /\ cdata' = "data"
          /\ kpc' = "send"
       \/ /\ reads' \in {reads,
                         reads \cup {[index |-> bufidx,
                                      owner |-> owner[bufidx]]}}
          /\ cdata' = cdata
          /\ kpc' = "exited"
    /\ UNCHANGED <<owner, bufidx, ncap, dqfail>>
    /\ UNCHANGED coreVars
    /\ UNCHANGED serverVars
    /\ UNCHANGED sendVars
    /\ UNCHANGED cameraVars
    /\ UNCHANGED convVars
    /\ UNCHANGED ledVars

\* send_mjpeg_frame(frame, sctx) < 0 -> break              (camera.c 394-398)
cap_send ==
    /\ kpc = "send"
    /\ \E r \in (IF cdata = "null" THEN {-1} ELSE {0, -2, -3, -4}) :
          kpc' = IF r < 0 THEN "stopped" ELSE "free"
    /\ UNCHANGED <<owner, bufidx, cdata, reads, ncap, dqfail>>
    /\ UNCHANGED coreVars
    /\ UNCHANGED serverVars
    /\ UNCHANGED sendVars
    /\ UNCHANGED cameraVars
    /\ UNCHANGED convVars
    /\ UNCHANGED ledVars

\* free(frame->data); frame->data = NULL; frame->size = 0  (camera.c 400-403)
cap_free ==
    /\ kpc = "free"
    /\ cdata' = "null"
    /\ kpc' = "qbuf"
    /\ UNCHANGED <<owner, bufidx, reads, ncap, dqfail>>
    /\ UNCHANGED coreVars
    /\ UNCHANGED serverVars
    /\ UNCHANGED sendVars
    /\ UNCHANGED cameraVars
    /\ UNCHANGED convVars
    /\ UNCHANGED ledVars

\* ioctl(VIDIOC_QBUF, &cctx->buf): the buffer goes back to the device, or
\* the call fails and the loop ends.                       (camera.c 405-409)
cap_qbuf ==
    /\ kpc = "qbuf"
    /\ \/ /\ owner' = [owner EXCEPT ![bufidx] = "device"]
          /\ kpc' = "dqbuf"
       \/ /\ kpc' = "stopped"
          /\ UNCHANGED owner
    /\ UNCHANGED <<bufidx, cdata, reads, ncap, dqfail>>
    /\ UNCHANGED coreVars
    /\ UNCHANGED serverVars
    /\ UNCHANGED sendVars
    /\ UNCHANGED cameraVars
    /\ UNCHANGED convVars
    /\ UNCHANGED ledVars

\* The address of main's one struct jpeg_frame, as the producer passes it
\* to capture_frames and to cb_write.                             (main.c 62)
MainFrame == 1

\* capture_frames has returned (it returns 0 whatever ended its loop): the
\* producer stores the frame pointer in the queue under the mutex, posts the
\* semaphore and calls capture_frames again.                (main.c 138-148)
cap_again ==
    /\ kpc = "stopped"
    /\ semData < MaxReturns
    /\ mutexBuffer = "none"
    /\ cb' = cb_write(cb, MainFrame)
    /\ live' = Contents(cb_write(cb, MainFrame))
    /\ semData' = semData + 1
    /\ kpc' = "dqbuf"
    /\ UNCHANGED <<owner, bufidx, cdata, reads, ncap, dqfail>>
    /\ UNCHANGED <<mutexBuffer, ppc, cpc, jpeg, output, ret, nframes, mem,
                   rel, sent, taken, misuse, variant>>
    /\ UNCHANGED driverVars
    /\ UNCHANGED serverVars
    /\ UNCHANGED sendVars
    /\ UNCHANGED cameraVars
    /\ UNCHANGED convVars
    /\ UNCHANGED ledVars

InitCapture ==
    /\ CoreIdle /\ ServerIdle /\ SendIdle /\ CameraIdle /\ ConvIdle
    /\ LedIdle
    /\ kpc = "dqbuf"
    /\ CaptureReady

NextCapture ==
    \/ cap_dqbuf
    \/ cap_convert
    \/ cap_send
    \/ cap_free
    \/ cap_qbuf
    \/ cap_again

SpecCapture == InitCapture /\ [][NextCapture]_vars

\* ------------------------------------------------- camera setup (camera.c)
\* initialize_camera (camera.c 64-83) step by step, close_camera (101-119)
\* and the part of main that calls them (main.c 71-82).

Step(name, ok) == [step |-> name, ok |-> ok]

\* The first k buffers mapped, the others untouched (calloc zeroed them).
MappedUpTo(k) ==
    [alloc |-> TRUE,
     start |-> [i \in Buffers |-> IF i < k THEN "mapped" ELSE "null"]]

CountUpTo(cnt, k) ==
    [i \in Buffers |-> IF i < k THEN cnt[i] + 1 ELSE cnt[i]]

\* cleanup_buffers: munmap of every start that is neither NULL nor
\* MAP_FAILED, unless cctx->buffers is NULL.               (camera.c 491-504)
UnmapCount(cnt, b, n) ==
    IF ~b.alloc THEN cnt
    ELSE [i \in Buffers |->
             IF i < n /\ b.start[i] = "mapped" THEN cnt[i] + 1 ELSE cnt[i]]

\* One ioctl on the control device: CAM_IOC_START or CAM_IOC_STOP, accepted
\* or not.                                                 (camera.c 456-484)
Led(cmd, ok) == [cmd |-> cmd, ok |-> ok]

\* cam_fd is not reset after the close.
close_camera_keep_fd ==
    /\ \E so \in BOOLEAN, lo \in BOOLEAN :
          LET off == cam_fd >= 0 /\ so
          IN  /\ streaming' = IF off THEN FALSE ELSE streaming
              /\ queued' = IF off THEN {} ELSE queued
              /\ leds' = IF off
                         THEN Append(leds, Led("stop", dev_fd >= 0 /\ lo))
                         ELSE leds
    /\ nunmap' = UnmapCount(nunmap, bufs, n_buffers)
    /\ n_buffers' = IF bufs.alloc THEN 0 ELSE n_buffers
    /\ bufs' = NoBuffers
    /\ hclose' = [hclose EXCEPT
                     !["cam"] = IF cam_fd >= 0 THEN @ + 1 ELSE @,
                     !["dev"] = IF dev_fd >= 0 THEN @ + 1 ELSE @]
    /\ cam_fd' = cam_fd
    /\ dev_fd' = -1

\* close_camera: stop_stream (VIDIOC_STREAMOFF, then the LED command when it
\* succeeded), cleanup_buffers, close of each descriptor that is >= 0.
\* The ioctls fail on a descriptor of -1 and may fail otherwise.
\*                                       (camera.c 101-119, 428-444, 491-504)
close_camera ==
    /\ \E so \in BOOLEAN, lo \in BOOLEAN :
          LET off == cam_fd >= 0 /\ so
          IN  /\ streaming' = IF off THEN FALSE ELSE streaming
              /\ queued' = IF off THEN {} ELSE queued
              /\ leds' = IF off
                         THEN Append(leds, Led("stop", dev_fd >= 0 /\ lo))
                         ELSE leds
    /\ nunmap' = UnmapCount(nunmap, bufs, n_buffers)
    /\ n_buffers' = IF bufs.alloc THEN 0 ELSE n_buffers
    /\ bufs' = NoBuffers
    /\ hclose' = [hclose EXCEPT
                     !["cam"] = IF cam_fd >= 0 THEN @ + 1 ELSE @,
                     !["dev"] = IF dev_fd >= 0 THEN @ + 1 ELSE @]
    /\ cam_fd' = -1
    /\ dev_fd' = -1

\* open_control_device: open(DEVICE_PATH).                 (camera.c 135-143)
init_open_control ==
    /\ ipc = "open_control"
    /\ \E ok \in BOOLEAN :
          /\ steps' = Append(steps, Step("open_control", ok))
          /\ dev_fd' = IF ok THEN 3 ELSE -1
          /\ hopen' = IF ok THEN [hopen EXCEPT !["dev"] = @ + 1] ELSE hopen
          /\ ipc' = IF ok THEN "configure" ELSE "error"
    /\ UNCHANGED <<cam_fd, bufs, n_buffers, queued, streaming, leds, hclose,
                   nmap, nunmap, iret, req_count>>
    /\ UNCHANGED coreVars
    /\ UNCHANGED serverVars
    /\ UNCHANGED sendVars
    /\ UNCHANGED captureVars
    /\ UNCHANGED convVars
    /\ UNCHANGED ledVars

\* The descriptor closed after a failed VIDIOC_S_FMT is kept in cam_fd.
init_configure_stale_fd ==
    /\ ipc = "configure"
    /\ \/ /\ cam_fd' = -1
          /\ steps' = Append(steps, Step("configure", FALSE))
          /\ ipc' = "error"
          /\ UNCHANGED <<hopen, hclose>>
       \/ /\ hopen' = [hopen EXCEPT !["cam"] = @ + 1]
          /\ hclose' = [hclose EXCEPT !["cam"] = @ + 1]
          /\ cam_fd' = 4
          /\ steps' = Append(steps, Step("configure", FALSE))
          /\ ipc' = "error"
       \/ /\ hopen' = [hopen EXCEPT !["cam"] = @ + 1]
          /\ cam_fd' = 4
          /\ steps' = Append(steps, Step("configure", TRUE))
          /\ ipc' = "request"
          /\ UNCHANGED hclose
    /\ UNCHANGED <<dev_fd, bufs, n_buffers, queued, streaming, leds, nmap,
                   nunmap, iret, req_count>>
    /\ UNCHANGED coreVars
    /\ UNCHANGED serverVars
    /\ UNCHANGED sendVars
    /\ UNCHANGED captureVars
    /\ UNCHANGED convVars
    /\ UNCHANGED ledVars

\* configure_camera: open(CAMERA_PATH) fails; or VIDIOC_S_FMT fails, the
\* descriptor is closed and cam_fd set to -1; or both succeed.
\*                                                         (camera.c 157-195)
init_configure ==
    /\ ipc = "configure"
    /\ \/ /\ cam_fd' = -1
          /\ steps' = Append(steps, Step("configure", FALSE))
          /\ ipc' = "error"
          /\ UNCHANGED <<hopen, hclose>>
       \/ /\ hopen' = [hopen EXCEPT !["cam"] = @ + 1]
          /\ hclose' = [hclose EXCEPT !["cam"] = @ + 1]
          /\ cam_fd' = -1
          /\ steps' = Append(steps, Step("configure", FALSE))
          /\ ipc' = "error"
       \/ /\ hopen' = [hopen EXCEPT !["cam"] = @ + 1]
          /\ cam_fd' = 4
          /\ steps' = Append(steps, Step("configure", TRUE))
          /\ ipc' = "request"
          /\ UNCHANGED hclose
    /\ UNCHANGED <<dev_fd, bufs, n_buffers, queued, streaming, leds, nmap,
                   nunmap, iret, req_count>>
    /\ UNCHANGED coreVars
    /\ UNCHANGED serverVars
    /\ UNCHANGED sendVars
    /\ UNCHANGED captureVars
    /\ UNCHANGED convVars
    /\ UNCHANGED ledVars

\* request_mmap_buffers: VIDIOC_REQBUFS asks for 4 buffers; the driver
\* writes the number it grants into req.count.            (camera.c 208-221)
init_request ==
    /\ ipc = "request"
    /\ \/ /\ req_count' = NumBuffers
          /\ steps' = Append(steps, Step("request", FALSE))
          /\ ipc' = "error"
       \/ \E granted \in 1..NumBuffers :
             /\ req_count' = granted
             /\ steps' = Append(steps, Step("request", TRUE))
             /\ ipc' = "map"
    /\ UNCHANGED <<dev_fd, cam_fd, bufs, n_buffers, queued, streaming, leds,
                   hopen, hclose, nmap, nunmap, iret>>
    /\ UNCHANGED coreVars
    /\ UNCHANGED serverVars
    /\ UNCHANGED sendVars
    /\ UNCHANGED captureVars
    /\ UNCHANGED convVars
    /\ UNCHANGED ledVars

\* The buffer at which mmap failed holds MAP_FAILED.
MapFailedAt(k) ==
    [alloc |-> TRUE,
     start |-> [i \in Buffers |->
                   IF i < k THEN "mapped" ELSE IF i = k THEN "failed"
                                                ELSE "null"]]

\* map_buffers: calloc fails; or VIDIOC_QUERYBUF fails at buffer k (return
\* without cleanup); or mmap fails at buffer k (cleanup_buffers, buffers =
\* NULL); or every buffer is mapped.                       (camera.c 239-286)
init_map ==
    /\ ipc = "map"
    /\ \/ /\ steps' = Append(steps, Step("map", FALSE))
          /\ ipc' = "error"
          /\ UNCHANGED <<bufs, n_buffers, nmap, nunmap>>
       \/ \E k \in 0..(req_count - 1) :
             /\ n_buffers' = req_count
             /\ bufs' = MappedUpTo(k)
             /\ nmap' = CountUpTo(nmap, k)
             /\ steps' = Append(steps, Step("map", FALSE))
             /\ ipc' = "error"
             /\ UNCHANGED nunmap
       \/ \E k \in 0..(req_count - 1) :
             /\ nmap' = CountUpTo(nmap, k)
             /\ nunmap' = UnmapCount(nunmap, MapFailedAt(k), req_count)
             /\ bufs' = NoBuffers
             /\ n_buffers' = 0
             /\ steps' = Append(steps, Step("map", FALSE))
             /\ ipc' = "error"
       \/ /\ n_buffers' = req_count
          /\ bufs' = MappedUpTo(req_count)
          /\ nmap' = CountUpTo(nmap, req_count)
          /\ steps' = Append(steps, Step("map", TRUE))
          /\ ipc' = "queue"
          /\ UNCHANGED nunmap
    /\ UNCHANGED <<dev_fd, cam_fd, queued, streaming, leds, hopen, hclose,
                   iret, req_count>>
    /\ UNCHANGED coreVars
    /\ UNCHANGED serverVars
    /\ UNCHANGED sendVars
    /\ UNCHANGED captureVars
    /\ UNCHANGED convVars
    /\ UNCHANGED ledVars

init_queue_unchecked ==
    /\ ipc = "queue"
    /\ \E k \in 0..n_buffers :
          /\ queued' = {i \in Buffers : i < k}
          /\ steps' = Append(steps, Step("queue", TRUE))
          /\ ipc' = "start"
    /\ UNCHANGED <<dev_fd, cam_fd, bufs, n_buffers, streaming, leds, hopen,
                   hclose, nmap, nunmap, iret, req_count>>
    /\ UNCHANGED coreVars
    /\ UNCHANGED serverVars
    /\ UNCHANGED sendVars
    /\ UNCHANGED captureVars
    /\ UNCHANGED convVars
    /\ UNCHANGED ledVars

\* queue_buffers: VIDIOC_QBUF of buffers 0 .. n_buffers - 1 in turn; the
\* first failure (at buffer k) returns.                    (camera.c 301-319)
init_queue ==
    /\ ipc = "queue"
    /\ \E k \in 0..n_buffers :
          /\ queued' = {i \in Buffers : i < k}
          /\ steps' = Append(steps, Step("queue", k = n_buffers))
          /\ ipc' = IF k = n_buffers THEN "start" ELSE "error"
    /\ UNCHANGED <<dev_fd, cam_fd, bufs, n_buffers, streaming, leds, hopen,
                   hclose, nmap, nunmap, iret, req_count>>
    /\ UNCHANGED coreVars
    /\ UNCHANGED serverVars
    /\ UNCHANGED sendVars
    /\ UNCHANGED captureVars
    /\ UNCHANGED convVars
    /\ UNCHANGED ledVars

\* start_stream returns the LED command's result.
init_start_led_checked ==
    /\ ipc = "start"
    /\ \/ /\ steps' = Append(steps, Step("start", FALSE))
          /\ ipc' = "error"
          /\ UNCHANGED <<streaming, leds, iret>>
       \/ /\ streaming' = TRUE
          /\ \E lo \in BOOLEAN :
                /\ leds' = Append(leds, Led("start", lo))
                /\ steps' = Append(steps, Step("start", lo))
                /\ iret' = IF lo THEN 0 ELSE iret
                /\ ipc' = IF lo THEN "ok" ELSE "error"
    /\ UNCHANGED <<dev_fd, cam_fd, bufs, n_buffers, queued, hopen, hclose,
                   nmap, nunmap, req_count>>
    /\ UNCHANGED coreVars
    /\ UNCHANGED serverVars
    /\ UNCHANGED sendVars
    /\ UNCHANGED captureVars
    /\ UNCHANGED convVars
    /\ UNCHANGED ledVars

\* start_stream: VIDIOC_STREAMON, then led_stream_on whose result is not
\* looked at; initialize_camera returns 0.      (camera.c 76-78, 335-351)
init_start ==
    /\ ipc = "start"
    /\ \/ /\ steps' = Append(steps, Step("start", FALSE))
          /\ ipc' = "error"
          /\ UNCHANGED <<streaming, leds, iret>>
       \/ /\ streaming' = TRUE
          /\ \E lo \in BOOLEAN :
                leds' = Append(leds, Led("start", lo))
          /\ steps' = Append(steps, Step("start", TRUE))
          /\ iret' = 0
          /\ ipc' = "ok"
    /\ UNCHANGED <<dev_fd, cam_fd, bufs, n_buffers, queued, hopen, hclose,
                   nmap, nunmap, req_count>>
    /\ UNCHANGED coreVars
    /\ UNCHANGED serverVars
    /\ UNCHANGED sendVars
    /\ UNCHANGED captureVars
    /\ UNCHANGED convVars
    /\ UNCHANGED ledVars

\* error: close_camera(cctx); return -1                      (camera.c 80-82)
init_error ==
    /\ ipc = "error"
    /\ close_camera
    /\ iret' = -1
    /\ ipc' = "failed"
    /\ UNCHANGED <<steps, hopen, nmap, req_count>>
    /\ UNCHANGED coreVars
    /\ UNCHANGED serverVars
    /\ UNCHANGED sendVars
    /\ UNCHANGED captureVars
    /\ UNCHANGED convVars
    /\ UNCHANGED ledVars

\* if (initialize_camera(&cctx) < 0) return -1                (main.c 72-75)
main_camera_failed ==
    /\ ipc = "failed"
    /\ ipc' = "aborted"
    /\ UNCHANGED <<dev_fd, cam_fd, bufs, n_buffers, queued, streaming, steps,
                   leds, hopen, hclose, nmap, nunmap, iret, req_count>>
    /\ UNCHANGED coreVars
    /\ UNCHANGED serverVars
    /\ UNCHANGED sendVars
    /\ UNCHANGED captureVars
    /\ UNCHANGED convVars
    /\ UNCHANGED ledVars

\* start_http_server: on failure close_camera and return -1, else main goes
\* on to its loop.                                            (main.c 78-83)
main_start_http_server ==
    /\ ipc = "ok"
    /\ \/ /\ ipc' = "serving"
          /\ UNCHANGED <<dev_fd, cam_fd, bufs, n_buffers, queued, streaming,
                         leds, hclose, nunmap>>
       \/ /\ close_camera
          /\ ipc' = "aborted"
    /\ UNCHANGED <<steps, hopen, nmap, iret, req_count>>
    /\ UNCHANGED coreVars
    /\ UNCHANGED serverVars
    /\ UNCHANGED sendVars
    /\ UNCHANGED captureVars
    /\ UNCHANGED convVars
    /\ UNCHANGED ledVars

InitCamera ==
    /\ CoreIdle /\ ServerIdle /\ SendIdle /\ CaptureIdle /\ ConvIdle
    /\ LedIdle
    /\ ipc = "open_control"
    /\ CameraClosed

NextCamera ==
    \/ init_open_control
    \/ init_configure
    \/ init_request
    \/ init_map
    \/ init_queue
    \/ init_start
    \/ init_error
    \/ main_camera_failed
    \/ main_start_http_server

SpecCamera == InitCamera /\ [][NextCamera]_vars

\* close_camera called through the public API (camera.h 57), as main does
\* after its loop (main.c 129): on a camera that was set up, or on one that
\* close_camera has already torn down.
api_close_camera ==
    /\ ipc \in {"ok", "serving", "failed", "aborted", "closed", "closed_again"}
    /\ close_camera
    /\ ipc' = IF ipc \in {"ok", "serving"} THEN "closed" ELSE "closed_again"
    /\ UNCHANGED <<steps, hopen, nmap, iret, req_count>>
    /\ UNCHANGED coreVars
    /\ UNCHANGED serverVars
    /\ UNCHANGED sendVars
    /\ UNCHANGED captureVars
    /\ UNCHANGED convVars
    /\ UNCHANGED ledVars

NextTeardown ==
    \/ NextCamera
    \/ api_close_camera

SpecTeardown == InitCamera /\ [][NextTeardown]_vars

\* ------------------------------------------- YUYV to RGB (image_encoder.c)
\* The arithmetic is C int arithmetic; no intermediate value leaves the
\* range of a 32-bit int.  x >> 8 on a negative int is an arithmetic shift
\* (the rounding towards minus infinity that gcc documents).

ByteSamples == {0, 1, 15, 16, 17, 100, 127, 128, 129, 200, 235, 254, 255}

CLIP_lower_only(x) == IF x < 0 THEN 0 ELSE x

\* #define CLIP(x) ((x) < 0 ? 0 : ((x) > 255 ? 255 : (x)))  (image_encoder.c 20)
CLIP(x) == IF x < 0 THEN 0 ELSE IF x > 255 THEN 255 ELSE x

\* (x) >> 8
Shr8(x) == x \div 256

\* The value an unsigned char holds after an int was assigned to it.
ToByte(x) == x % 256

\* One pixel from its luma and the group's chroma.  (image_encoder.c 64-67,
\* 70-73, and the same lines of convert_yuyv_to_jpeg, 209-222)
ConvertPixel(y, u, v) ==
    LET c == y - 16
        d == u - 128
        e == v - 128
    IN  [r |-> ToByte(CLIP(Shr8(298 * c + 409 * e + 128))),
         g |-> ToByte(CLIP(Shr8(298 * c - 100 * d - 208 * e + 128))),
         b |-> ToByte(CLIP(Shr8(298 * c + 516 * d + 128)))]

\* One 4-byte group <<Y0, U, Y1, V>> gives two pixels.  (image_encoder.c 33-73)
ConvertGroup(g) ==
    <<ConvertPixel(g[1], g[2], g[4]), ConvertPixel(g[3], g[2], g[4])>>

\* One iteration of the loop body on the group at hand.
group_convert ==
    /\ gpc = "ready"
    /\ gout' = ConvertGroup(gin)
    /\ gpc' = "done"
    /\ UNCHANGED gin
    /\ UNCHANGED frameVars
    /\ UNCHANGED coreVars
    /\ UNCHANGED serverVars
    /\ UNCHANGED sendVars
    /\ UNCHANGED captureVars
    /\ UNCHANGED cameraVars
    /\ UNCHANGED ledVars

InitGroup ==
    /\ CoreIdle /\ ServerIdle /\ SendIdle /\ CaptureIdle /\ CameraIdle
    /\ LedIdle
    /\ FrameIdle
    /\ gpc = "ready"
    /\ gin \in ByteSamples \X ByteSamples \X ByteSamples \X ByteSamples
    /\ gout = <<>>

NextGroup == group_convert

SpecGroup == InitGroup /\ [][NextGroup]_vars

\* ----------------------------------- convert_yuyv_to_rgb on a whole frame
\* The input frame is ywidth x yheight pixels, ywidth / 2 groups per row,
\* stored row after row in ymem; ydata is yuyv->data as an offset in groups
\* from the start of that memory.  The output buffer is what the caller put
\* in rgb->data: the function neither allocates it nor sets its dimensions.

MaxRows == 3
MaxConversions == 2

Widths == {2, 4}

GroupSamples == {<<128, 128, 128, 128>>, <<255, 0, 0, 255>>, <<16, 128, 235, 128>>}

\* An output pixel no call has stored into.
Unwritten == [r |-> -1, g |-> -1, b |-> -1]

GroupsPerRow == ywidth \div 2

\* The groups the loop reads lie inside the frame's memory.
ReadsInBounds == ydata + GroupsPerRow <= Len(ymem)

\* rgb->data is a buffer of ywidth * yheight pixels (false: it is NULL).
OutputAllocated == Len(rgb) = ywidth * yheight

\* The group the k-th iteration reads through yuyv->data; beyond the end of
\* the frame it is whatever lies there.
GroupRead(k, beyond) ==
    IF ydata + k <= Len(ymem) THEN ymem[ydata + k] ELSE beyond[k]

\* The output buffer after the loop: iteration k (x = 2 (k - 1)) stores the
\* two pixels of its group at pixels x and x + 1.
RowConverted(beyond) ==
    [i \in 1..Len(rgb) |->
        IF i <= ywidth
        THEN ConvertGroup(GroupRead((i + 1) \div 2, beyond))[2 - (i % 2)]
        ELSE rgb[i]]

\* convert_yuyv_to_rgb, from entry to return 0.
convert_call ==
    /\ fpc \in {"ready", "called"}
    /\ ncv < MaxConversions
    /\ \E beyond \in [1..GroupsPerRow -> GroupSamples] :
          /\ ReadsInBounds => beyond = [k \in 1..GroupsPerRow |-> ymem[1]]
          /\ rgb' = IF OutputAllocated THEN RowConverted(beyond) ELSE rgb
    /\ ydata' = ydata + GroupsPerRow
    /\ rgb1' = IF ncv = 0 THEN rgb' ELSE rgb1
    /\ ncv' = ncv + 1
    /\ fpc' = "called"
    /\ UNCHANGED <<ymem, ywidth, yheight>>
    /\ UNCHANGED groupVars
    /\ UNCHANGED coreVars
    /\ UNCHANGED serverVars
    /\ UNCHANGED sendVars
    /\ UNCHANGED captureVars
    /\ UNCHANGED cameraVars
    /\ UNCHANGED ledVars

\* The call reads past the frame's memory or stores through a NULL
\* rgb->data, and the process is killed.
convert_fault ==
    /\ fpc \in {"ready", "called"}
    /\ ncv < MaxConversions
    /\ ~ReadsInBounds \/ ~OutputAllocated
    /\ fpc' = "crashed"
    /\ ncv' = ncv + 1
    /\ UNCHANGED <<ymem, ydata, ywidth, yheight, rgb, rgb1>>
    /\ UNCHANGED groupVars
    /\ UNCHANGED coreVars
    /\ UNCHANGED serverVars
    /\ UNCHANGED sendVars
    /\ UNCHANGED captureVars
    /\ UNCHANGED cameraVars
    /\ UNCHANGED ledVars

InitConvert ==
    /\ CoreIdle /\ ServerIdle /\ SendIdle /\ CaptureIdle /\ CameraIdle
    /\ LedIdle
    /\ GroupIdle
    /\ fpc = "ready"
    /\ ywidth \in Widths
    /\ yheight \in 1..MaxRows
    /\ ymem \in [1..((ywidth \div 2) * yheight) -> GroupSamples]
    /\ ydata = 0
    /\ rgb \in {<<>>, [i \in 1..(ywidth * yheight) |-> Unwritten]}
    /\ rgb1 = <<>>
    /\ ncv = 0

NextConvert == convert_call \/ convert_fault

SpecConvert == InitConvert /\ [][NextConvert]_vars

\* ------------------------------------------- the LED driver (cam_stream.c)
\* The LEDs are wired active low: a line driven to 0 lights its LED, a line
\* driven to 1 or not driven at all leaves it dark.  (cam_stream.c 126-130)

MaxCommands == 3

Commands == {"START", "STOP", "RESET", "OTHER"}

EINVAL == 22

Lit(l) == gpio[l].val = 0

\* gpiod_direction_output(desc, 1): on success the line is an output
\* driven to 1; on failure it is left as it was.
DirectionOutput(line, ok) ==
    IF ok THEN [line EXCEPT !.out = TRUE, !.val = 1] ELSE line

\* gpiod_set_value(desc, v): drives an output line to v.  On a line that was
\* not made an output the call may or may not reach the pin.
SetValue(line, v) ==
    IF line.out THEN {[line EXCEPT !.val = v]}
    ELSE {line, [line EXCEPT !.val = v]}

\* gpiod_put(desc)
Put(line) == [line EXCEPT !.desc = "put"]

UnchangedOutside == 
    /\ UNCHANGED coreVars
    /\ UNCHANGED serverVars
    /\ UNCHANGED sendVars
    /\ UNCHANGED captureVars
    /\ UNCHANGED cameraVars
    /\ UNCHANGED convVars

\* 1. major = register_chrdev(0, "cam_stream", &fops)  (cam_stream.c 205-211)
led_register ==
    /\ lpc = "register"
    /\ \/ /\ kobj' = kobj \cup {"chrdev"}
          /\ lpc' = "class"
          /\ UNCHANGED <<lret, lfail>>
       \/ /\ lret' = -1
          /\ lfail' = "major"
          /\ lpc' = "failed"
          /\ UNCHANGED kobj
    /\ UNCHANGED <<gpio_ready, gpio, lcmds>>
    /\ UnchangedOutside

\* 2. cls = class_create("cam_class")                  (cam_stream.c 213-219)
led_class ==
    /\ lpc = "class"
    /\ \/ /\ kobj' = kobj \cup {"class"}
          /\ lpc' = "device"
          /\ UNCHANGED <<lret, lfail>>
       \/ /\ kobj' = kobj \ {"chrdev"}
          /\ lret' = -1
          /\ lfail' = "class"
          /\ lpc' = "failed"
    /\ UNCHANGED <<gpio_ready, gpio, lcmds>>
    /\ UnchangedOutside

\* 3. dev = device_create(cls, ...)                    (cam_stream.c 221-228)
led_device ==
    /\ lpc = "device"
    /\ \/ /\ kobj' = kobj \cup {"device"}
          /\ lpc' = "gpio"
          /\ UNCHANGED <<lret, lfail>>
       \/ /\ kobj' = (kobj \ {"class"}) \ {"chrdev"}
          /\ lret' = -1
          /\ lfail' = "device"
          /\ lpc' = "failed"
    /\ UNCHANGED <<gpio_ready, gpio, lcmds>>
    /\ UnchangedOutside

\* 4. gpio_to_desc for both LEDs.  When either is NULL: gpio_ready = false,
\* the descriptor that was obtained is put, and my_init returns 0.
\*                                              (cam_stream.c 230-243, 262-263)
led_gpio ==
    /\ lpc = "gpio"
    /\ \E r \in BOOLEAN, g \in BOOLEAN :
          IF r /\ g
          THEN /\ gpio' = [l \in LedNames |-> [gpio[l] EXCEPT !.desc = "held"]]
               /\ lpc' = "configure"
               /\ UNCHANGED <<gpio_ready, lret, lfail>>
          ELSE /\ gpio_ready' = FALSE
               /\ gpio' = [gpio EXCEPT
                             !["red"].desc = IF r THEN "put" ELSE "null",
                             !["green"].desc = IF g THEN "put" ELSE "null"]
               /\ lret' = 0
               /\ lfail' = "gpio"
               /\ lpc' = "loaded"
    /\ UNCHANGED <<kobj, lcmds>>
    /\ UnchangedOutside

\* 5. gpiod_direction_output(.., 1) on both lines; a non-zero status is
\* logged only.  gpio_ready = true, gpiod_set_value(red_led, 0), return 0.
\*                                                     (cam_stream.c 245-263)
led_configure ==
    /\ lpc = "configure"
    /\ \E okr \in BOOLEAN, okg \in BOOLEAN :
          /\ \E red \in SetValue(DirectionOutput(gpio["red"], okr), 0) :
                gpio' = [gpio EXCEPT
                           !["red"] = red,
                           !["green"] = DirectionOutput(gpio["green"], okg)]
          /\ lfail' = IF okr /\ okg THEN lfail ELSE "configure"
    /\ gpio_ready' = TRUE
    /\ lret' = 0
    /\ lpc' = "loaded"
    /\ UNCHANGED <<kobj, lcmds>>
    /\ UnchangedOutside

\* The lines after the two gpiod_set_value calls of a command: first line
\* l1 to v1, then line l2 to v2.
SetBoth(l1, v1, l2, v2) ==
    {[gpio EXCEPT ![l1] = a, ![l2] = b] :
        a \in SetValue(gpio[l1], v1), b \in SetValue(gpio[l2], v2)}

\* cam_stream_ioctl                                    (cam_stream.c 121-163)
cam_stream_ioctl ==
    /\ lpc = "loaded"
    /\ Len(lcmds) < MaxCommands
    /\ \E cmd \in Commands :
          /\ lcmds' = Append(lcmds,
                             [cmd |-> cmd,
                              ret |-> IF cmd = "OTHER" THEN -EINVAL ELSE 0])
          /\ IF ~gpio_ready \/ cmd = "OTHER"
             THEN gpio' = gpio
             ELSE gpio' \in
                    CASE cmd = "START" -> SetBoth("red", 1, "green", 0)
                      [] cmd = "STOP"  -> SetBoth("green", 1, "red", 0)
                      [] cmd = "RESET" -> SetBoth("green", 0, "red", 0)
    /\ UNCHANGED <<lpc, kobj, gpio_ready, lret, lfail>>
    /\ UnchangedOutside

\* my_exit                                             (cam_stream.c 281-307)
my_exit ==
    /\ lpc = "loaded"
    /\ IF gpio_ready
       THEN \E g \in SetBoth("red", 1, "green", 1) :
               gpio' = [l \in LedNames |-> Put(g[l])]
       ELSE gpio' = gpio
    /\ kobj' = {}
    /\ lpc' = "unloaded"
    /\ UNCHANGED <<gpio_ready, lret, lcmds, lfail>>
    /\ UnchangedOutside

\* insmod: my_init is entered with the module's static state.
InitLed ==
    /\ CoreIdle /\ ServerIdle /\ SendIdle /\ CaptureIdle /\ CameraIdle
    /\ ConvIdle
    /\ lpc = "register"
    /\ LedUnloaded

NextLed ==
    \/ led_register
    \/ led_class
    \/ led_device
    \/ led_gpio
    \/ led_configure
    \/ cam_stream_ioctl
    \/ my_exit

SpecLed == InitLed /\ [][NextLed]_vars

\* -------------------------------------- camera_client.c: main and cleanup
\* The stand-alone client keeps the same struct camera_ctx; its main runs
\* the setup steps itself and has one cleanup label.  iret is main's ret.

\* goto cleanup with ret = 1
ClientFail(name) ==
    /\ steps' = Append(steps, Step(name, FALSE))
    /\ iret' = 1
    /\ ipc' = "client_cleanup"

ClientNext(name, next) ==
    /\ steps' = Append(steps, Step(name, TRUE))
    /\ iret' = iret
    /\ ipc' = next

\* open_control_device: ctx->dev_fd = open(DEVICE_PATH, O_RDWR)
\*                                             (camera_client.c 114-122, 695)
client_open_control ==
    /\ ipc = "client_open_control"
    /\ \/ /\ dev_fd' = -1
          /\ ClientFail("open_control")
          /\ UNCHANGED hopen
       \/ /\ dev_fd' = 3
          /\ hopen' = [hopen EXCEPT !["dev"] = @ + 1]
          /\ ClientNext("open_control", "client_configure")
    /\ UNCHANGED <<cam_fd, bufs, n_buffers, queued, streaming, leds, hclose,
                   nmap, nunmap, req_count>>
    /\ UNCHANGED coreVars
    /\ UNCHANGED serverVars
    /\ UNCHANGED sendVars
    /\ UNCHANGED captureVars
    /\ UNCHANGED convVars
    /\ UNCHANGED ledVars

\* configure_camera: open(CAMERA_PATH), VIDIOC_S_FMT; on a failed S_FMT the
\* descriptor is closed and reset to -1.       (camera_client.c 176-209, 696)
client_configure ==
    /\ ipc = "client_configure"
    /\ \/ /\ cam_fd' = -1
          /\ ClientFail("configure")
          /\ UNCHANGED <<hopen, hclose>>
       \/ /\ hopen' = [hopen EXCEPT !["cam"] = @ + 1]
          /\ hclose' = [hclose EXCEPT !["cam"] = @ + 1]
          /\ cam_fd' = -1
          /\ ClientFail("configure")
       \/ /\ hopen' = [hopen EXCEPT !["cam"] = @ + 1]
          /\ cam_fd' = 4
          /\ ClientNext("configure", "client_request")
          /\ UNCHANGED hclose
    /\ UNCHANGED <<dev_fd, bufs, n_buffers, queued, streaming, leds, nmap,
                   nunmap, req_count>>
    /\ UNCHANGED coreVars
    /\ UNCHANGED serverVars
    /\ UNCHANGED sendVars
    /\ UNCHANGED captureVars
    /\ UNCHANGED convVars
    /\ UNCHANGED ledVars

\* request_buffers: req.count = 4, VIDIOC_REQBUFS; the driver may grant
\* fewer.                                      (camera_client.c 227-240, 697)
client_request ==
    /\ ipc = "client_request"
    /\ \/ /\ req_count' = NumBuffers
          /\ ClientFail("request")
       \/ \E granted \in 1..NumBuffers :
             /\ req_count' = granted
             /\ ClientNext("request", "client_map")
    /\ UNCHANGED <<dev_fd, cam_fd, bufs, n_buffers, queued, streaming, leds,
                   hopen, hclose, nmap, nunmap>>
    /\ UNCHANGED coreVars
    /\ UNCHANGED serverVars
    /\ UNCHANGED sendVars
    /\ UNCHANGED captureVars
    /\ UNCHANGED convVars
    /\ UNCHANGED ledVars

\* map_buffers: calloc fails; or VIDIOC_QUERYBUF fails at buffer k (return);
\* or mmap fails at buffer k (cleanup_buffers, buffers = NULL); or every
\* buffer is mapped.                           (camera_client.c 258-306, 698)
client_map ==
    /\ ipc = "client_map"
    /\ \/ /\ ClientFail("map")
          /\ UNCHANGED <<bufs, n_buffers, nmap, nunmap>>
       \/ \E k \in 0..(req_count - 1) :
             /\ n_buffers' = req_count
             /\ bufs' = MappedUpTo(k)
             /\ nmap' = CountUpTo(nmap, k)
             /\ ClientFail("map")
             /\ UNCHANGED nunmap
       \/ \E k \in 0..(req_count - 1) :
             /\ nmap' = CountUpTo(nmap, k)
             /\ nunmap' = UnmapCount(nunmap, MapFailedAt(k), req_count)
             /\ bufs' = NoBuffers
             /\ n_buffers' = 0
             /\ ClientFail("map")
       \/ /\ n_buffers' = req_count
          /\ bufs' = MappedUpTo(req_count)
          /\ nmap' = CountUpTo(nmap, req_count)
          /\ ClientNext("map", "client_queue")
          /\ UNCHANGED nunmap
    /\ UNCHANGED <<dev_fd, cam_fd, queued, streaming, leds, hopen, hclose,
                   req_count>>
    /\ UNCHANGED coreVars
    /\ UNCHANGED serverVars
    /\ UNCHANGED sendVars
    /\ UNCHANGED captureVars
    /\ UNCHANGED convVars
    /\ UNCHANGED ledVars

\* queue_buffers: VIDIOC_QBUF per buffer, return at the first failure.
\*                                             (camera_client.c 320-335, 699)
client_queue ==
    /\ ipc = "client_queue"
    /\ \E k \in 0..n_buffers :
          /\ queued' = {i \in Buffers : i < k}
          /\ IF k = n_buffers
             THEN ClientNext("queue", "client_start")
             ELSE ClientFail("queue")
    /\ UNCHANGED <<dev_fd, cam_fd, bufs, n_buffers, streaming, leds, hopen,
                   hclose, nmap, nunmap, req_count>>
    /\ UNCHANGED coreVars
    /\ UNCHANGED serverVars
    /\ UNCHANGED sendVars
    /\ UNCHANGED captureVars
    /\ UNCHANGED convVars
    /\ UNCHANGED ledVars

\* start_stream: VIDIOC_STREAMON, then led_stream_on.
\*                                             (camera_client.c 354-368, 700)
client_start ==
    /\ ipc = "client_start"
    /\ \/ /\ ClientFail("start")
          /\ UNCHANGED <<streaming, leds>>
       \/ /\ streaming' = TRUE
          /\ \E lo \in BOOLEAN : leds' = Append(leds, Led("start", lo))
          /\ ClientNext("start", "client_capture")
    /\ UNCHANGED <<dev_fd, cam_fd, bufs, n_buffers, queued, hopen, hclose,
                   nmap, nunmap, req_count>>
    /\ UNCHANGED coreVars
    /\ UNCHANGED serverVars
    /\ UNCHANGED sendVars
    /\ UNCHANGED captureVars
    /\ UNCHANGED convVars
    /\ UNCHANGED ledVars

\* capture_frames returns 0 or a negative value; it neither opens, closes,
\* maps nor unmaps.                            (camera_client.c 415-470, 701)
client_capture ==
    /\ ipc = "client_capture"
    /\ \/ ClientFail("capture")
       \/ ClientNext("capture", "client_stop")
    /\ UNCHANGED <<dev_fd, cam_fd, bufs, n_buffers, queued, streaming, leds,
                   hopen, hclose, nmap, nunmap, req_count>>
    /\ UNCHANGED coreVars
    /\ UNCHANGED serverVars
    /\ UNCHANGED sendVars
    /\ UNCHANGED captureVars
    /\ UNCHANGED convVars
    /\ UNCHANGED ledVars

\* stop_stream: VIDIOC_STREAMOFF, then led_stream_off; main falls into
\* cleanup either way.                         (camera_client.c 384-398, 702)
client_stop ==
    /\ ipc = "client_stop"
    /\ \/ /\ ClientFail("stop")
          /\ UNCHANGED <<streaming, queued, leds>>
       \/ /\ streaming' = FALSE
          /\ queued' = {}
          /\ \E lo \in BOOLEAN : leds' = Append(leds, Led("stop", lo))
          /\ ClientNext("stop", "client_cleanup")
    /\ UNCHANGED <<dev_fd, cam_fd, bufs, n_buffers, hopen, hclose, nmap,
                   nunmap, req_count>>
    /\ UNCHANGED coreVars
    /\ UNCHANGED serverVars
    /\ UNCHANGED sendVars
    /\ UNCHANGED captureVars
    /\ UNCHANGED convVars
    /\ UNCHANGED ledVars

\* cleanup: cleanup_buffers(&ctx); close of each descriptor that is >= 0;
\* return ret.                            (camera_client.c 656-669, 704-711)
client_cleanup ==
    /\ ipc = "client_cleanup"
    /\ nunmap' = UnmapCount(nunmap, bufs, n_buffers)
    /\ n_buffers' = IF bufs.alloc THEN 0 ELSE n_buffers
    /\ bufs' = NoBuffers
    /\ hclose' = [hclose EXCEPT
                     !["cam"] = IF cam_fd >= 0 THEN @ + 1 ELSE @,
                     !["dev"] = IF dev_fd >= 0 THEN @ + 1 ELSE @]
    /\ ipc' = "client_done"
    /\ UNCHANGED <<dev_fd, cam_fd, queued, streaming, steps, leds, hopen,
                   nmap, iret, req_count>>
    /\ UNCHANGED coreVars
    /\ UNCHANGED serverVars
    /\ UNCHANGED sendVars
    /\ UNCHANGED captureVars
    /\ UNCHANGED convVars
    /\ UNCHANGED ledVars

\* struct camera_ctx ctx = {0}; int ret = 0;        (camera_client.c 692-693)
InitClient ==
    /\ CoreIdle /\ ServerIdle /\ SendIdle /\ CaptureIdle /\ ConvIdle
    /\ LedIdle
    /\ ipc = "client_open_control"
    /\ dev_fd = 0
    /\ cam_fd = 0
    /\ bufs = NoBuffers
    /\ n_buffers = 0
    /\ queued = {}
    /\ streaming = FALSE
    /\ steps = <<>>
    /\ leds = <<>>
    /\ hopen = [d \in Devices |-> 0]
    /\ hclose = [d \in Devices |-> 0]
    /\ nmap = [i \in Buffers |-> 0]
    /\ nunmap = [i \in Buffers |-> 0]
    /\ iret = 0
    /\ req_count = 0

NextClient ==
    \/ client_open_control
    \/ client_configure
    \/ client_request
    \/ client_map
    \/ client_queue
    \/ client_start
    \/ client_capture
    \/ client_stop
    \/ client_cleanup

SpecClient == InitClient /\ [][NextClient]_vars

\* ------------------------------------------------------------------ claims

\* Frames that cb_write has stored so far in the pipeline.
Written ==
    {f \in 1..nframes : ~(f = jpeg /\ ppc \in {"lock", "write"})}

LiveSet == {live[i] : i \in DOMAIN live}

\* Frames that were stored and can no longer be reached: not in the queue
\* and never handed to the consumer.
Dropped == Written \ (LiveSet \cup taken)

ReleasedFrames == {f \in Frames : rel[f] > 0}

C2_DroppedFramesReleased ==
    /\ \A f \in Dropped : rel[f] = 1
    /\ (taken = {} /\ Cardinality(Written) > BUFFER_SIZE)
          => Cardinality(ReleasedFrames)
                = Cardinality(Written) - (BUFFER_SIZE - 1)

\* C3: the semaphore's value never exceeds the number of live entries of
\* the queue, so the read that follows a wait finds the queue non-empty.
C3_SignalWithinLiveEntries ==
    /\ semData <= Len(live)
    /\ cpc = "read" => cb.head # cb.tail

C5_FifoOrder ==
    (fromEmpty /\ Len(batch) <= BUFFER_SIZE - 1) =>
        \A m \in 1..Len(got) :
            /\ m <= Len(batch) => got[m] = batch[m]
            /\ m > Len(batch) => got[m] = 0

\* BUFFER_SIZE-1 frames written into a queue emptied earlier (indices
\* wrapped), all read back and one more read made.
C5_Witness ==
    /\ fromEmpty
    /\ Len(batch) = BUFFER_SIZE - 1
    /\ batch[1] > 1
    /\ Len(got) = BUFFER_SIZE

\* C6: M > BUFFER_SIZE-1 writes with no read between them leave exactly
\* the BUFFER_SIZE-1 most recently written frames in the queue, and the
\* reads that follow return them oldest first.
C6_DropOldest ==
    Len(batch) > BUFFER_SIZE - 1 =>
        LET kept == SubSeq(batch, Len(batch) - BUFFER_SIZE + 2, Len(batch))
        IN  /\ got = <<>> => Contents(cb) = kept
            /\ \A m \in 1..Len(got) :
                  /\ m <= BUFFER_SIZE - 1 => got[m] = kept[m]
                  /\ m > BUFFER_SIZE - 1 => got[m] = 0

\* More than BUFFER_SIZE frames written in a row, then all kept frames read.
C6_Witness ==
    /\ Len(batch) > BUFFER_SIZE
    /\ Len(got) = BUFFER_SIZE - 1

\* C7: cb_read on an empty queue returns false and leaves head, tail, the
\* entries and the caller's output variable as they were; on a non-empty
\* queue it returns true, yields the oldest entry, advances tail by one
\* modulo BUFFER_SIZE and leaves head as it was.
C7_ReadFrame ==
    last.op = "read" =>
        IF last.oldest = 0
        THEN /\ last.ret = FALSE
             /\ cb = last.pre
             /\ output = last.preOut
        ELSE /\ last.ret = TRUE
             /\ output = last.oldest
             /\ cb.tail = (last.pre.tail + 1) % BUFFER_SIZE
             /\ cb.head = last.pre.head

\* A read of an empty queue made by a caller whose output variable holds a
\* frame from an earlier read.
C7_Witness ==
    /\ last.op = "read"
    /\ last.oldest = 0
    /\ last.preOut # 0
    /\ last.pre.tail # 0

\* C8: every cb_write and cb_read of the pipeline runs with the queue mutex
\* held by the calling thread, so producer and consumer are never inside a
\* queue operation together.
C8_QueueOpsUnderMutex ==
    /\ ppc \in {"write", "unlock"} => mutexBuffer = "producer"
    /\ cpc \in {"read", "unlock"} => mutexBuffer = "consumer"
    /\ ~(ppc \in {"write", "unlock"} /\ cpc \in {"read", "unlock"})

\* The producer is about to write while the consumer waits for the mutex.
C8_Witness ==
    /\ ppc = "write"
    /\ cpc = "lock"
    /\ mutexBuffer = "producer"

C10_TakenFramesReleased ==
    cpc \in {"wait", "lock", "done"} => \A f \in taken : rel[f] = 1

\* The consumer's send has failed: it is about to leave its loop, or has.
ConsumerFailed ==
    \/ cpc = "free" /\ ret < 0
    \/ cpc = "done"

\* C11: once a send has failed the consumer leaves its loop: from then on no
\* step dequeues a frame or writes one to the connection, and the consumer
\* does nothing but end.
C11_ConsumerStopsAfterFailedSend ==
    [][ConsumerFailed =>
          /\ sent' = sent
          /\ taken' = taken
          /\ wire' = wire
          /\ ret' = ret
          /\ cpc' \in {cpc, "done"}]_vars

\* The consumer has ended on a failed send while frames are still queued and
\* signalled.
C11_Witness ==
    /\ cpc = "done"
    /\ ret < 0
    /\ semData > 0
    /\ Len(live) > 0
    /\ Len(sent) > 0

\* Threads running their loops.
ProducerRunning == ppc \notin {"off", "done"}
ConsumerRunning == cpc \notin {"off", "done"}

\* C12: when the viewer is gone (its consumer has ended on a failed send)
\* the server goes on towards accepting the next viewer: main is not held
\* in the join of the still running producer.
C12_ServerReturnsToAccepting ==
    (mpc = "join0" /\ cpc = "done") => ENABLED main_join_producer

\* C13: at every moment exactly one producer runs and at most one consumer,
\* and no thread is ever created beside a running predecessor.
C13_OneProducerAtMostOneConsumer ==
    /\ ProducerRunning
    /\ ~overlap

\* C14: the producer runs while no viewer is connected (before the first
\* is accepted and between viewers), and with no consumer draining the
\* queue stays at no more than BUFFER_SIZE - 1 frames.
C14_ProducerRunsWithoutViewer ==
    /\ mpc \in {"accept", "header"} => ProducerRunning
    /\ ~ConsumerRunning => Len(live) <= BUFFER_SIZE - 1

\* A write of the session header, whole or short.
IsHeader(x) == x.kind \in {"header", "header_short"}

\* C15: on every accepted connection the session header is written exactly
\* once and before any frame part: it is the first write on the connection,
\* no later write is a header, and the threads that send frames are created
\* only after the whole header went out.
C15_HeaderOnceAndFirst ==
    /\ \A i \in 1..Len(wire) : IsHeader(wire[i]) <=> i = 1
    /\ mpc \in {"create0", "create1", "join0", "join1", "close"} =>
          Len(wire) >= 1 /\ wire[1] = Header

\* A second connection (the first lost its header) carries the header and
\* then frames.
C15_Witness ==
    /\ nconn = 2
    /\ Len(wire) >= 3
    /\ wire[1] = Header
    /\ closes[1] = 1

\* The value a digit token stands for, and the number a digit string reads as.
DigitValue(c) == CHOOSE d \in 0..9 : DigitChars[d + 1] = c

RECURSIVE Value(_)
Value(ds) ==
    IF ds = <<>> THEN 0
    ELSE Value(SubSeq(ds, 1, Len(ds) - 1)) * 10 + DigitValue(ds[Len(ds)])

IsDigits(ds) ==
    /\ Len(ds) >= 1
    /\ \A i \in 1..Len(ds) : \E d \in 0..9 : DigitChars[d + 1] = ds[i]
    /\ Len(ds) = 1 \/ ds[1] # "0"

\* The fixed bytes of a part header: 9 + 26 + 16 before the length and
\* 2 + 2 after it.
PartHeaderFixedLen == 55

PartOrder == <<"header", "payload", "trailer">>

\* C17: a write that is short or fails is the last write of its call, which
\* has returned a negative value; no part is written twice (no retry) and
\* the parts come in the order header, payload, trailer.
C17_FailedWriteEndsCall ==
    /\ Len(swrites) <= 3
    /\ \A i \in 1..Len(swrites) :
          /\ swrites[i].part = PartOrder[i]
          /\ swrites[i].done # swrites[i].asked =>
                /\ i = Len(swrites)
                /\ spc = "returned"
                /\ sret = -1 - i

\* The payload write was short: the call returned -3 without a trailer.
C17_Witness ==
    /\ spc = "returned"
    /\ sret = -3
    /\ Len(swrites) = 2
    /\ swrites[2].done > 0
    /\ swrites[2].done < swrites[2].asked

\* C18: every read of a device buffer's memory happens while the process
\* owns the buffer, that is after its VIDIOC_DQBUF and before its
\* VIDIOC_QBUF; the buffer about to be converted is one the process owns.
C18_ReadsOnlyOwnedBuffers ==
    /\ \A r \in reads : r.owner = "process"
    /\ kpc = "convert" => owner[bufidx] = "process"

\* Two buffers were read; the first has gone back to the device.
C18_Witness ==
    /\ Cardinality(reads) >= 2
    /\ kpc = "send"
    /\ \E r \in reads : owner[r.index] = "device"

\* The buffers the driver granted.
Granted == {i \in Buffers : i < req_count}

SetupOrder ==
    <<"open_control", "configure", "request", "map", "queue", "start">>

\* C19: the setup steps are attempted in the fixed order open control
\* device, open and configure capture device, request buffers, map buffers,
\* enqueue buffers, enable streaming; only the last step attempted can have
\* failed; and the device streams only with all granted buffers enqueued.
C19_SetupOrder ==
    /\ Len(steps) <= Len(SetupOrder)
    /\ \A i \in 1..Len(steps) :
          /\ steps[i].step = SetupOrder[i]
          /\ ~steps[i].ok => i = Len(steps)
    /\ ipc = "start" => queued = Granted
    /\ streaming => queued = Granted /\ Len(steps) = Len(SetupOrder)

\* Setup ran to the end: six steps, all buffers queued, streaming.
C19_Witness ==
    /\ ipc = "ok"
    /\ streaming
    /\ Len(steps) = 6
    /\ steps[6].ok
    /\ queued = Buffers

\* C20: once initialize_camera has returned an error, every descriptor it
\* opened has been closed exactly once and every buffer it mapped has been
\* unmapped exactly once, nothing is left in the context, and main has not
\* started the server: it aborts.  At no time is anything closed or
\* unmapped more often than it was opened or mapped.
C20_FailedSetupReleasesAll ==
    /\ \A d \in Devices : hclose[d] <= hopen[d] /\ hopen[d] <= 1
    /\ \A i \in Buffers : nunmap[i] <= nmap[i] /\ nmap[i] <= 1
    /\ iret < 0 =>
          /\ ipc \in {"failed", "aborted"}
          /\ \A d \in Devices : hclose[d] = hopen[d]
          /\ \A i \in Buffers : nunmap[i] = nmap[i]
          /\ cam_fd = -1
          /\ dev_fd = -1
          /\ bufs = NoBuffers
          /\ \E i \in 1..Len(steps) : ~steps[i].ok

\* Queueing failed after all buffers were mapped: both devices closed, the
\* buffers unmapped, main aborted.
C20_Witness ==
    /\ ipc = "aborted"
    /\ iret = -1
    /\ Len(steps) = 5
    /\ \A i \in Buffers : nmap[i] = 1 /\ nunmap[i] = 1
    /\ \A d \in Devices : hopen[d] = 1 /\ hclose[d] = 1

\* The step that just returned its error to initialize_camera is map_buffers.
MapStepFailed ==
    /\ ipc = "error"
    /\ Len(steps) >= 1
    /\ steps[Len(steps)].step = "map"

\* C21: when map_buffers returns its error (querying or mapping buffer i
\* failed) every mapping it made for buffers 0 .. i-1 has been unmapped,
\* and no buffer is ever unmapped twice.
C21_MapFailureUnmapsBeforeReturn ==
    /\ MapStepFailed => \A i \in Buffers : nunmap[i] = nmap[i]
    /\ \A i \in Buffers : nunmap[i] <= 1

\* C22: a call of close_camera on a context that close_camera has already
\* torn down (after a first call, or after a failed setup) closes no
\* descriptor, unmaps no buffer, issues no LED command and leaves the
\* context as it was.
C22_CloseCameraIdempotent ==
    [][ipc' = "closed_again" =>
          /\ hclose' = hclose
          /\ nunmap' = nunmap
          /\ leds' = leds
          /\ cam_fd' = cam_fd
          /\ dev_fd' = dev_fd
          /\ bufs' = bufs
          /\ n_buffers' = n_buffers
          /\ streaming' = streaming
          /\ queued' = queued]_vars

\* A camera that was set up with all buffers has been closed, and
\* close_camera was called again.
C22_Witness ==
    /\ ipc = "closed_again"
    /\ iret = 0
    /\ \A d \in Devices : hopen[d] = 1 /\ hclose[d] = 1
    /\ \A i \in Buffers : nmap[i] = 1 /\ nunmap[i] = 1

\* The LED commands issued so far, in order.
LedCmds == [i \in 1..Len(leds) |-> leds[i].cmd]

\* C23: in a streaming session the LED driver is told ENTER-STREAMING once
\* and then EXIT-STREAMING once: the commands issued are always a prefix of
\* <<start, stop>>, so no stop is issued without the start before it.
C23_LedSignalsPaired ==
    LedCmds \in {<<>>, <<"start">>, <<"start", "stop">>}

\* C24: a frame whose conversion or encoding fails is dropped and the loop
\* goes on with the next frame: an encoder failure never ends the capture
\* loop, let alone the process.
C24_BadFrameDoesNotEndStream ==
    kpc # "exited"

ProcessOwned == {i \in Buffers : owner[i] = "process"}

\* C29: the capture loop gives every dequeued buffer back before it
\* dequeues again or ends: never more than one buffer is with the process,
\* and when the loop is about to dequeue or has ended (the viewer's session
\* is over) every buffer is with the device.
C29_BuffersReturnedToDevice ==
    /\ Cardinality(ProcessOwned) <= 1
    /\ kpc \in {"dqbuf", "stopped"} => ProcessOwned = {}

\* C30: once a VIDIOC_DQBUF has failed the producer has stopped: no step
\* after it dequeues a buffer, writes into the frame queue or posts the
\* semaphore.
C30_DequeueFailureStopsProducer ==
    [][dqfail =>
          /\ ncap' = ncap
          /\ cb' = cb
          /\ semData' = semData]_vars

\* clip saturating to 0..255.
Saturate(q) == IF q < 0 THEN 0 ELSE IF q > 255 THEN 255 ELSE q

\* ch is clip(n >> 8): the clipped q with 256 q <= n < 256 q + 256.
IsClippedShift(ch, n) ==
    \E q \in -1024..1024 :
       /\ 256 * q <= n
       /\ n < 256 * q + 256
       /\ ch = Saturate(q)

\* The pixel of luma y under chroma u, v is as the BT.601 formulas say.
PixelAsSpecified(p, y, u, v) ==
    LET c == y - 16
        d == u - 128
        e == v - 128
    IN  /\ IsClippedShift(p.r, 298 * c + 409 * e + 128)
        /\ IsClippedShift(p.g, 298 * c - 100 * d - 208 * e + 128)
        /\ IsClippedShift(p.b, 298 * c + 516 * d + 128)
        /\ p.r \in 0..255
        /\ p.g \in 0..255
        /\ p.b \in 0..255

\* C25: a converted group <<Y0, U, Y1, V>> has given two pixels, the first
\* from Y0 and the second from Y1, both under the same U and V, each channel
\* the clipped fixed-point BT.601 value and within 0..255.
C25_GroupConversion ==
    gpc = "done" =>
        /\ Len(gout) = 2
        /\ PixelAsSpecified(gout[1], gin[1], gin[2], gin[4])
        /\ PixelAsSpecified(gout[2], gin[3], gin[2], gin[4])

\* A group whose first pixel saturates red at 255 and whose second pixel
\* has green and blue clipped up to 0 from negative values.
C25_Witness ==
    /\ gpc = "done"
    /\ gin = <<255, 0, 0, 255>>
    /\ gout[1] = [r |-> 255, g |-> 225, b |-> 20]
    /\ gout[2] = [r |-> 184, g |-> 0, b |-> 0]

\* The first call has returned, into a buffer of ywidth * yheight pixels.
FirstCallReturned == fpc = "called" /\ ncv = 1 /\ OutputAllocated

\* C26: when convert_yuyv_to_rgb has returned, it has consumed
\* width * height * 2 input bytes and has written every one of the
\* width * height pixels (width * height * 3 bytes) of the output.
C26_ConvertsEveryPixel ==
    FirstCallReturned =>
        /\ 4 * ydata = ywidth * yheight * 2
        /\ \A i \in 1..Len(rgb) : rgb[i] # Unwritten

\* C27: the conversion leaves the input frame's data pointer where it was,
\* and a second conversion of the same frame gives the output the first gave.
C27_ConversionRepeatable ==
    (fpc = "called" /\ OutputAllocated) =>
        /\ ydata = 0
        /\ ncv = 2 => rgb = rgb1

\* Every pixel of the input frame has Y = U = V = 128.
UniformGray == \A k \in 1..Len(ymem) : ymem[k] = <<128, 128, 128, 128>>

\* C28: the conversion of a frame of Y = U = V = 128 gives every output
\* pixel the same gray, R = G = B, within one of 128.
C28_UniformGray ==
    (FirstCallReturned /\ UniformGray) =>
        \A i \in 1..Len(rgb) :
            /\ rgb[i] = rgb[1]
            /\ rgb[i].r = rgb[i].g
            /\ rgb[i].g = rgb[i].b
            /\ rgb[i].r \in 127..129

\* The step issues the LED command cmd and the command fails.
LedCommandFails(cmd) == leds' = Append(leds, Led(cmd, FALSE))

\* C31: a step in which CAM_IOC_START fails still ends with setup complete
\* (start_stream and initialize_camera report success, the stream is on),
\* and a step in which CAM_IOC_STOP fails still ends with every mapped
\* buffer unmapped, the buffer array released and both descriptors closed.
C31_LedFailureIsNotFatal ==
    [][/\ LedCommandFails("start") =>
            /\ ipc' = "ok"
            /\ iret' = 0
            /\ streaming'
            /\ steps'[Len(steps')] = Step("start", TRUE)
       /\ LedCommandFails("stop") =>
            /\ bufs' = NoBuffers
            /\ \A i \in Buffers : nunmap'[i] = nmap'[i]
            /\ cam_fd' = -1
            /\ dev_fd' = -1
            /\ \A d \in Devices : hclose'[d] = hopen'[d]]_vars

\* A session whose START and STOP commands both failed, set up and torn down.
C31_Witness ==
    /\ ipc = "closed"
    /\ leds = <<Led("start", FALSE), Led("stop", FALSE)>>
    /\ iret = 0
    /\ bufs = NoBuffers
    /\ cam_fd = -1
    /\ dev_fd = -1
    /\ \A i \in Buffers : i < req_count => nunmap[i] = 1

\* The thread is between its pthread_mutex_lock and its pthread_mutex_unlock.
ProducerInCritical == ppc \in {"write", "unlock"}
ConsumerInCritical == cpc \in {"read", "unlock"}

\* C32: the queue mutex is held by a thread exactly while that thread is at
\* its cb_write or cb_read or at the unlock that follows it, never while it
\* captures, waits on the counting signal or writes to the socket; and the
\* holder's next step, the queue call or the unlock, is never blocked.
C32_MutexOnlyAroundQueueCall ==
    /\ mutexBuffer = "producer" <=> ProducerInCritical
    /\ mutexBuffer = "consumer" <=> ConsumerInCritical
    /\ mutexBuffer = "producer" => ENABLED (producer_write \/ producer_unlock)
    /\ mutexBuffer = "consumer" =>
          ENABLED (consumer_read \/ consumer_unlock
                     \/ send_frames_read \/ send_frames_unlock)

\* The producer holds the mutex after its cb_write while the consumer, woken
\* by an earlier post, stands at its own lock.
C32_Witness ==
    /\ mutexBuffer = "producer"
    /\ ppc = "unlock"
    /\ cpc = "lock"
    /\ nframes >= 2

\* The step is a send_mjpeg_http_header that does not write the whole header.
HeaderWriteFails == mpc = "header" /\ wire' = Append(wire, HeaderShort)

\* The connection at hand is one whose header write failed.
HeaderFailed == \E i \in 1..Len(wire) : wire[i] = HeaderShort

\* C33: the step in which the header write fails closes the client socket,
\* starts no thread and leaves the server at accept; and nothing more, no
\* frame in particular, is ever written to a connection whose header failed.
C33_HeaderFailureDropsConnection ==
    /\ [][HeaderWriteFails =>
            /\ closes'[client_fd] = closes[client_fd] + 1
            /\ mpc' = "accept"
            /\ UNCHANGED <<th0, th1, ppc, cpc>>]_vars
    /\ [](HeaderFailed =>
            /\ wire = <<HeaderShort>>
            /\ mpc = "accept"
            /\ ppc \in {"off", "done"}
            /\ cpc \in {"off", "done"})

\* The first connection's header write has failed and the server is back
\* at accept with that socket closed.
C33_Witness ==
    /\ HeaderFailed
    /\ nconn = 1
    /\ mpc = "accept"
    /\ closes[1] = 1
    /\ ENABLED main_accept

\* The step writes a frame part to the client descriptor.
FrameWritten == Len(wire') = Len(wire) + 1 /\ wire'[Len(wire')].kind = "part"

\* The step closes the socket of connection c.
SocketClosed(c) == closes'[c] = closes[c] + 1

\* No socket is closed twice, none while a consumer runs, and a frame is
\* written only to the descriptor of the latest accept, not yet closed.
ClientSocketSafety ==
    /\ [](\A c \in Conns : closes[c] <= 1)
    /\ [][/\ \A c \in Conns : SocketClosed(c) => ~ConsumerRunning
          /\ FrameWritten =>
                /\ client_fd = nconn
                /\ closes[client_fd] = 0
                /\ mpc \in {"join0", "join1"}]_vars

\* The consumer of the session at hand has terminated.
ConsumerEnded == th1 = "valid" /\ cpc = "done"

\* C34: a session's client socket is closed exactly once and only after the
\* session's consumer has terminated: never twice, never beside a running
\* consumer, and once the consumer has terminated main does go on, through
\* its joins, to the close; no frame is written to a descriptor that was
\* closed or replaced.
C34_ClientSocketClosedOnce ==
    /\ ClientSocketSafety
    /\ [](ConsumerEnded /\ client_fd \in Conns /\ closes[client_fd] = 0 =>
             ENABLED (main_join_producer \/ main_join_consumer \/ main_close))

\* The driver is loaded with gpio_ready set and has received commands, all
\* of them START or STOP.
OnlyStartStop ==
    /\ lpc = "loaded"
    /\ gpio_ready
    /\ Len(lcmds) >= 1
    /\ \A i \in 1..Len(lcmds) : lcmds[i].cmd \in {"START", "STOP"}

LastCommand == lcmds[Len(lcmds)].cmd

\* Exactly the LED l is lit.
OnlyLit(l) == \A m \in LedNames : Lit(m) <=> m = l

\* Both lines were made outputs by my_init.
LinesConfigured == \A l \in LedNames : gpio[l].out

\* With both lines configured as outputs the last START or STOP selects the
\* one LED that is lit.
LedFollowsCommandWhenConfigured ==
    (OnlyStartStop /\ LinesConfigured) =>
        /\ LastCommand = "START" => OnlyLit("green")
        /\ LastCommand = "STOP" => OnlyLit("red")

\* C35: with gpio_ready set, after START only the green LED is lit and
\* after STOP only the red one: after any sequence of START and STOP the
\* one LED the last command selects is lit and the other is dark.
C35_LedFollowsLastCommand ==
    OnlyStartStop =>
        /\ LastCommand = "START" => OnlyLit("green")
        /\ LastCommand = "STOP" => OnlyLit("red")

\* C36: with gpio_ready set, after a RESET command neither LED is lit.
C36_ResetTurnsLedsOff ==
    (lpc = "loaded" /\ gpio_ready /\ Len(lcmds) >= 1
       /\ LastCommand = "RESET") =>
        \A l \in LedNames : ~Lit(l)

\* my_init has returned.
InitReturned == lpc \in {"loaded", "failed", "unloaded"}

\* C37: when a step of my_init has failed, my_init has returned a negative
\* error code and nothing it set up before is left: no registered major
\* number, class or device node, no GPIO descriptor held, the driver not
\* loaded.
C37_InitFailureUndone ==
    (InitReturned /\ lfail # "none") =>
        /\ lret < 0
        /\ lpc = "failed"
        /\ kobj = {}
        /\ \A l \in LedNames : gpio[l].desc # "held"
        /\ ~gpio_ready

\* The first three steps undo what came before them and return an error.
EarlyInitFailureUndone ==
    (InitReturned /\ lfail \in {"major", "class", "device"}) =>
        /\ lret < 0
        /\ lpc = "failed"
        /\ kobj = {}

\* C38: when the client's main has run its cleanup, after whichever step
\* failed or after none, it has closed each descriptor exactly as often as
\* this run opened it (so none that was never opened) and has unmapped each
\* buffer exactly as often as it was mapped.
C38_CleanupReleasesWhatWasAcquired ==
    ipc = "client_done" =>
        /\ \A d \in Devices : hclose[d] = hopen[d]
        /\ \A i \in Buffers : nunmap[i] = nmap[i]
        /\ bufs = NoBuffers

\* Whenever the control device was opened, cleanup releases exactly what
\* the run acquired.
CleanupExactAfterControlOpened ==
    (ipc = "client_done" /\ hopen["dev"] = 1) =>
        /\ \A d \in Devices : hclose[d] = hopen[d]
        /\ \A i \in Buffers : nunmap[i] = nmap[i]
        /\ bufs = NoBuffers

====
